---- MODULE Spec2Model ----
(***************************************************************************)
(* Narrative memory and consistency engine of mythos-api.                  *)
(*                                                                         *)
(* Text is modelled as a sequence of tokens.  A token is one lexical unit  *)
(* of the metadata wire format (a delimiter, a field label, a category     *)
(* name, a colon, one digit, one blank) or one word of prose.  The regular *)
(* expressions of app/utils/llm_client.py are translated position by       *)
(* position over such sequences.                                           *)
(***************************************************************************)
EXTENDS Integers, Sequences, FiniteSets, TLC

VARIABLES
    content,        \* response.choices[0].message.content of the generation call
    emitted,        \* number of pieces the generation service has produced of it
    result,         \* what generate_story returns for it, or NoResult
    report,         \* a violation report handed to compute_nsi
    score,          \* what compute_nsi returned for it, or NoScore
    call,           \* the arguments of a generate_story call and of its request
    sent,           \* the message list that call hands to the service, or <<>>
    story_messages,         \* table story_messages of the story, by order_index
    story_world_rules,      \* column stories.world_rules of the story
    story_summary,          \* column stories.summary of the story
    story_hints,            \* table story_hints of the story, by creation
    story_change_requests,  \* table story_change_requests of the story, by id
    last,           \* the request served last: what it was and how it ended
    outbound,       \* the calls that request made to the language service, in order
    inflight,       \* the requests being served at the same time, or NoInflight
    story_access    \* table story_access, by id; <<>> where sharing is not modelled

parseVars == <<content, emitted, result>>

storyVars ==
    <<story_messages, story_world_rules, story_summary, story_hints,
      story_change_requests, last, outbound, inflight, story_access>>

nsiVars == <<report, score>>

callVars == <<call, sent>>

vars ==
    <<content, emitted, result, report, score, call, sent,
      story_messages, story_world_rules, story_summary, story_hints,
      story_change_requests, last, outbound, inflight, story_access>>

----------------------------------------------------------------------------
(* Tokens *)

WO == "<WRLD>"
WC == "</WRLD>"
UR == "UPDATED_RULES"
VC == "VIOLATION_COUNTS"
COLON == ":"
WS == " "
CI == "CHARACTER_INCONSISTENCY"
TC == "TIMELINE_CONTRADICTION"
WRV == "WORLD_RULE_VIOLATION"
IGF == "IGNORED_FACT"

Categories == <<CI, TC, WRV, IGF>>

CategorySet == {Categories[i] : i \in 1..Len(Categories)}

Digits == {"0", "1", "2", "3", "4", "5", "6", "7", "8", "9"}

DigitValue(d) ==
    CASE d = "0" -> 0 [] d = "1" -> 1 [] d = "2" -> 2 [] d = "3" -> 3
      [] d = "4" -> 4 [] d = "5" -> 5 [] d = "6" -> 6 [] d = "7" -> 7
      [] d = "8" -> 8 [] d = "9" -> 9

IsSpace(t) == t = WS

IsDigit(t) == t \in Digits

NoResult == [none |-> TRUE]

NoScore == 0 - 1

\* Python's None and its empty string or list are both false wherever this
\* code tests them, and nothing else is asked of them: both are <<>> here
None == <<>>

\* no generation call: every argument empty
NoCall ==
    [context |-> "", request_genre |-> None, story_genre |-> None, turns |-> <<>>,
     summary |-> None, retrieved_hints |-> None, previous_nsi |-> 100,
     world_rules |-> None]

Range(s) == {s[i] : i \in 1..Len(s)}

----------------------------------------------------------------------------
(* String primitives *)

\* s[from..], the rest of s from position from on
Tail_(s, from) == SubSeq(s, from, Len(s))

RECURSIVE LStrip(_)
LStrip(s) ==
    IF s # <<>> /\ IsSpace(Head(s)) THEN LStrip(Tail(s)) ELSE s

RECURSIVE RStrip(_)
RStrip(s) ==
    IF s # <<>> /\ IsSpace(s[Len(s)]) THEN RStrip(SubSeq(s, 1, Len(s) - 1)) ELSE s

\* str.strip()
Strip(s) == RStrip(LStrip(s))

\* least position >= from holding token t, 0 when there is none
RECURSIVE Find(_, _, _)
Find(s, t, from) ==
    IF from > Len(s) THEN 0
    ELSE IF s[from] = t THEN from
    ELSE Find(s, t, from + 1)

\* \s* from position p: the first position >= p that holds no blank
RECURSIVE SkipSpace(_, _)
SkipSpace(s, p) ==
    IF p <= Len(s) /\ IsSpace(s[p]) THEN SkipSpace(s, p + 1) ELSE p

\* (\d+) from position p: the first position >= p that holds no digit
RECURSIVE SkipDigits(_, _)
SkipDigits(s, p) ==
    IF p <= Len(s) /\ IsDigit(s[p]) THEN SkipDigits(s, p + 1) ELSE p

\* int() of a run of digits
RECURSIVE ToInt(_)
ToInt(ds) ==
    IF ds = <<>> THEN 0
    ELSE 10 * ToInt(SubSeq(ds, 1, Len(ds) - 1)) + DigitValue(ds[Len(ds)])

----------------------------------------------------------------------------
(* app/utils/llm_client.py: the metadata block *)

\* re.search(r"<WRLD>(.*?)</WRLD>", raw_output, flags=re.DOTALL) from position
\* from on: <<i, j>>, the positions of the two delimiters, <<0, 0>> for no match
wrld_search(raw_output, from) ==
    LET i == Find(raw_output, WO, from)
        j == IF i = 0 THEN 0 ELSE Find(raw_output, WC, i + 1)
    IN  IF j = 0 THEN <<0, 0>> ELSE <<i, j>>

\* wrld_match.group(1)
wrld_group(raw_output, m) == SubSeq(raw_output, m[1] + 1, m[2] - 1)

\* re.sub(r"<WRLD>.*?</WRLD>", "", raw_output, flags=re.DOTALL)
RECURSIVE re_sub_wrld(_)
re_sub_wrld(raw_output) ==
    LET m == wrld_search(raw_output, 1)
    IN  IF m = <<0, 0>> THEN raw_output
        ELSE SubSeq(raw_output, 1, m[1] - 1) \o re_sub_wrld(Tail_(raw_output, m[2] + 1))

\* rf"{key}\s*:\s*(\d+)" matched at position i of wrld_block: the positions
\* <<first digit, one past the last digit>>, <<0, 0>> when it does not match there
key_match_at(wrld_block, key, i) ==
    IF i > Len(wrld_block) \/ wrld_block[i] # key THEN <<0, 0>>
    ELSE LET p == SkipSpace(wrld_block, i + 1)
         IN  IF p > Len(wrld_block) \/ wrld_block[p] # COLON THEN <<0, 0>>
             ELSE LET q == SkipSpace(wrld_block, p + 1)
                      e == SkipDigits(wrld_block, q)
                  IN  IF e = q THEN <<0, 0>> ELSE <<q, e>>

\* re.search(rf"{key}\s*:\s*(\d+)", wrld_block): the leftmost match
RECURSIVE key_search(_, _, _)
key_search(wrld_block, key, i) ==
    IF i > Len(wrld_block) THEN <<0, 0>>
    ELSE IF key_match_at(wrld_block, key, i) # <<0, 0>>
         THEN key_match_at(wrld_block, key, i)
         ELSE key_search(wrld_block, key, i + 1)

ZeroViolations == [k \in CategorySet |-> 0]

parse_wrld_violations_NoEarlyReturn(raw_output) ==
    LET m == wrld_search(raw_output, 1)
        wrld_block == IF m = <<0, 0>> THEN raw_output ELSE wrld_group(raw_output, m)
    IN  [key \in CategorySet |->
            LET match == key_search(wrld_block, key, 1)
            IN  IF match = <<0, 0>> THEN 0
                ELSE ToInt(SubSeq(wrld_block, match[1], match[2] - 1))]

parse_wrld_violations(raw_output) ==
    LET m == wrld_search(raw_output, 1)
    IN  IF m = <<0, 0>> THEN ZeroViolations
        ELSE LET wrld_block == wrld_group(raw_output, m)
             IN  [key \in CategorySet |->
                    LET match == key_search(wrld_block, key, 1)
                    IN  IF match = <<0, 0>> THEN ZeroViolations[key]
                        ELSE ToInt(SubSeq(wrld_block, match[1], match[2] - 1))]

\* r"UPDATED_RULES\s*:" or r"VIOLATION_COUNTS\s*:" matched at position i: the
\* position one past the colon, 0 when it does not match there
label_match_at(wrld_block, label, i) ==
    IF i > Len(wrld_block) \/ wrld_block[i] # label THEN 0
    ELSE LET p == SkipSpace(wrld_block, i + 1)
         IN  IF p > Len(wrld_block) \/ wrld_block[p] # COLON THEN 0 ELSE p + 1

\* the lazy (.*?) of the pattern: the least position e >= from where the
\* lookahead (?=VIOLATION_COUNTS\s*:) succeeds, 0 when there is none
RECURSIVE lookahead_search(_, _)
lookahead_search(wrld_block, from) ==
    IF from > Len(wrld_block) THEN 0
    ELSE IF label_match_at(wrld_block, VC, from) # 0 THEN from
    ELSE lookahead_search(wrld_block, from + 1)

\* r"UPDATED_RULES\s*:\s*(.*?)(?=VIOLATION_COUNTS\s*:)" matched at position i:
\* <<q, e>> with group(1) = wrld_block[q..e-1], <<0, 0>> when it does not match
rules_match_at(wrld_block, i) ==
    LET a == label_match_at(wrld_block, UR, i)
    IN  IF a = 0 THEN <<0, 0>>
        ELSE LET q == SkipSpace(wrld_block, a)
                 e == lookahead_search(wrld_block, q)
             IN  IF e = 0 THEN <<0, 0>> ELSE <<q, e>>

\* re.search of that pattern in wrld_block: the leftmost match
RECURSIVE rules_search(_, _)
rules_search(wrld_block, i) ==
    IF i > Len(wrld_block) THEN <<0, 0>>
    ELSE IF rules_match_at(wrld_block, i) # <<0, 0>> THEN rules_match_at(wrld_block, i)
    ELSE rules_search(wrld_block, i + 1)

extract_updated_rules_NoStrip(raw_output) ==
    LET m == wrld_search(raw_output, 1)
    IN  IF m = <<0, 0>> THEN <<>>
        ELSE LET wrld_block == wrld_group(raw_output, m)
                 match == rules_search(wrld_block, 1)
             IN  IF match # <<0, 0>>
                 THEN SubSeq(wrld_block, match[1], match[2] - 1)
                 ELSE <<>>

extract_updated_rules(raw_output) ==
    LET m == wrld_search(raw_output, 1)
    IN  IF m = <<0, 0>> THEN <<>>
        ELSE LET wrld_block == wrld_group(raw_output, m)
                 match == rules_search(wrld_block, 1)
             IN  IF match # <<0, 0>>
                 THEN Strip(SubSeq(wrld_block, match[1], match[2] - 1))
                 ELSE <<>>

\* dict.get(key, 0)
Get(d, key) == IF key \in DOMAIN d THEN d[key] ELSE 0

Max(a, b) == IF a >= b THEN a ELSE b

compute_nsi_NoFloor(v) ==
    100 - Get(v, CI) * 10 - Get(v, TC) * 10 - Get(v, WRV) * 15 - Get(v, IGF) * 5

compute_nsi(v) ==
    LET s0 == 100
        s1 == s0 - Get(v, CI) * 10
        s2 == s1 - Get(v, TC) * 10
        s3 == s2 - Get(v, WRV) * 15
        s4 == s3 - Get(v, IGF) * 5
    IN  Max(s4, 0)

\* generate_story from the service's answer on: what it returns for the answer
generate_story_return(response_content) ==
    LET raw_output == Strip(response_content)
    IN  [raw_output    |-> raw_output,
         clean_output  |-> Strip(re_sub_wrld(raw_output)),
         violations    |-> parse_wrld_violations(raw_output),
         updated_rules |-> extract_updated_rules(raw_output)]

----------------------------------------------------------------------------
(* The generation service answers piece by piece; generate_story then parses *)

MaxChunks == 5

ParseIdle ==
    /\ content = <<>>
    /\ emitted = 0
    /\ result = NoResult

NsiIdle ==
    /\ report = ZeroViolations
    /\ score = NoScore

CallIdle ==
    /\ call = NoCall
    /\ sent = <<>>

\* no request served yet
NoRequest ==
    [op |-> "none", access |-> "none", status |-> 0, parsed |-> FALSE,
     delta |-> None, rules_before |-> None, target |-> 0]

\* no requests are served at the same time
NoInflight == <<>>

StoryIdle ==
    /\ story_messages = <<>>
    /\ story_world_rules = None
    /\ story_summary = None
    /\ story_hints = <<>>
    /\ story_change_requests = <<>>
    /\ last = NoRequest
    /\ outbound = <<>>
    /\ inflight = NoInflight
    /\ story_access = <<>>

InitParse == ParseIdle /\ NsiIdle /\ CallIdle /\ StoryIdle

Emit(chunk) ==
    /\ result = NoResult
    /\ emitted < MaxChunks
    /\ content' = content \o chunk
    /\ emitted' = emitted + 1
    /\ UNCHANGED <<result, nsiVars, callVars, storyVars>>

Respond ==
    /\ result = NoResult
    /\ result' = generate_story_return(content)
    /\ UNCHANGED <<content, emitted, nsiVars, callVars, storyVars>>

StripChunks ==
    {<<WO>>, <<WC>>, <<WS>>, <<"a">>, <<CI, COLON, "2">>, <<UR, COLON, "a", VC, COLON>>}

EmitStrip == \E chunk \in StripChunks : Emit(chunk)

NextStrip == EmitStrip \/ Respond

SpecStrip == InitParse /\ [][NextStrip]_vars

CountChunks ==
    {<<WO>>, <<WC>>, <<WS>>, <<"a">>, <<"2">>, <<"-">>, <<IGF, COLON>>,
     <<WRV, WS, COLON, WS>>}

EmitCounts == \E chunk \in CountChunks : Emit(chunk)

NextCounts == EmitCounts \/ Respond

SpecCounts == InitParse /\ [][NextCounts]_vars

RuleChunks ==
    {<<WO>>, <<WC>>, <<WS>>, <<WS, "a", WS>>, <<UR>>, <<VC>>, <<UR, COLON>>,
     <<VC, WS, COLON>>}

EmitRules == \E chunk \in RuleChunks : Emit(chunk)

NextRules == EmitRules \/ Respond

SpecRules == InitParse /\ [][NextRules]_vars

----------------------------------------------------------------------------
(* Violation reports handed to compute_nsi *)

MaxCount == 4

\* a key that is none of the four categories
OtherKey == "CONFIDENCE"

InitNsi == ParseIdle /\ NsiIdle /\ CallIdle /\ StoryIdle

\* the report counts one more violation of category k
Detect(k) ==
    /\ Get(report, k) < MaxCount
    /\ report' = [x \in DOMAIN report \cup {k} |->
                     IF x = k THEN Get(report, k) + 1 ELSE report[x]]
    /\ score' = NoScore
    /\ UNCHANGED <<parseVars, callVars, storyVars>>

\* the report lacks category k: compute_nsi reads it with a default
Omit(k) ==
    /\ k \in DOMAIN report
    /\ report[k] = 0
    /\ report' = [x \in DOMAIN report \ {k} |-> report[x]]
    /\ score' = NoScore
    /\ UNCHANGED <<parseVars, callVars, storyVars>>

\* the report carries a key that is no category
Annotate(n) ==
    /\ OtherKey \notin DOMAIN report
    /\ report' = [x \in DOMAIN report \cup {OtherKey} |->
                     IF x = OtherKey THEN n ELSE report[x]]
    /\ score' = NoScore
    /\ UNCHANGED <<parseVars, callVars, storyVars>>

ComputeNsi ==
    /\ score = NoScore
    /\ score' = compute_nsi(report)
    /\ UNCHANGED <<report, parseVars, callVars, storyVars>>

DetectAny == \E k \in CategorySet : Detect(k)

OmitAny == \E k \in CategorySet : Omit(k)

AnnotateAny == \E n \in 0..MaxCount : Annotate(n)

NextNsi == DetectAny \/ OmitAny \/ AnnotateAny \/ ComputeNsi

SpecNsi == InitNsi /\ [][NextNsi]_vars

----------------------------------------------------------------------------
(* app/utils/llm_client.py: generate_story up to the call of the service.   *)
(* A genre is a sequence of characters.                                     *)

\* str.upper() on one character
UpperChar(c) ==
    CASE
         c = "a" -> "A"
      [] c = "b" -> "B"
      [] c = "c" -> "C"
      [] c = "d" -> "D"
      [] c = "e" -> "E"
      [] c = "f" -> "F"
      [] c = "g" -> "G"
      [] c = "h" -> "H"
      [] c = "i" -> "I"
      [] c = "j" -> "J"
      [] c = "k" -> "K"
      [] c = "l" -> "L"
      [] c = "m" -> "M"
      [] c = "n" -> "N"
      [] c = "o" -> "O"
      [] c = "p" -> "P"
      [] c = "q" -> "Q"
      [] c = "r" -> "R"
      [] c = "s" -> "S"
      [] c = "t" -> "T"
      [] c = "u" -> "U"
      [] c = "v" -> "V"
      [] c = "w" -> "W"
      [] c = "x" -> "X"
      [] c = "y" -> "Y"
      [] c = "z" -> "Z"
      [] OTHER -> c

\* str.upper()
str_upper(s) == [i \in 1..Len(s) |-> UpperChar(s[i])]

\* str.replace(" ", "_")
str_replace_space(s) == [i \in 1..Len(s) |-> IF s[i] = " " THEN "_" ELSE s[i]]

\* Python's a or b
Or(a, b) == IF a # None THEN a ELSE b

GENERAL_lower == <<"g", "e", "n", "e", "r", "a", "l">>

NO_RULES_TEXT == <<"No established world rules yet.">>

NO_HINTS_TEXT == <<"No previous hints.">>

\* active_genre = (genre or "general").upper().replace(" ", "_")
active_genre_of(genre) == str_replace_space(str_upper(Or(genre, GENERAL_lower)))

\* genre = request.genre or story.genre or ""
route_genre(request_genre, story_genre) == Or(Or(request_genre, story_genre), <<>>)

system_message(genre, summary, retrieved_hints, previous_nsi, world_rules) ==
    [role |-> "system", kind |-> "policy",
     body |-> [active_genre  |-> active_genre_of(genre),
               rules_context |-> Or(Or(world_rules, summary), NO_RULES_TEXT),
               hint_rag      |-> Or(Or(retrieved_hints, <<>>), NO_HINTS_TEXT),
               previous_nsi  |-> previous_nsi]]

summary_message(summary) ==
    [role |-> "system", kind |-> "summary", body |-> summary]

notes_message(retrieved_hints) ==
    [role |-> "system", kind |-> "notes", body |-> retrieved_hints]

prompt_message(context, genre) ==
    [role |-> "user", kind |-> "instruction",
     body |-> [genre_str |-> genre, context |-> context]]

\* one persisted turn as the two history messages built from it
history_of_turn(m) ==
    <<[role |-> "user", kind |-> "history", body |-> m.user_prompt],
      [role |-> "assistant", kind |-> "history", body |-> m.ai_response]>>

RECURSIVE history_of(_)
history_of(msgs) ==
    IF msgs = <<>> THEN <<>>
    ELSE history_of_turn(Head(msgs)) \o history_of(Tail(msgs))

build_messages_HistoryLast(context, genre, history, summary, retrieved_hints, previous_nsi, world_rules) ==
    LET m0 == <<system_message(genre, summary, retrieved_hints, previous_nsi,
                               world_rules)>>
        m1 == IF summary # None THEN Append(m0, summary_message(summary)) ELSE m0
        m2 == IF retrieved_hints # None /\ Len(retrieved_hints) > 0
              THEN Append(m1, notes_message(retrieved_hints)) ELSE m1
        m3 == Append(m2, prompt_message(context, genre))
    IN  IF history # None THEN m3 \o history ELSE m3

\* the list messages of generate_story at the call of the service
build_messages(context, genre, history, summary, retrieved_hints, previous_nsi, world_rules) ==
    LET m0 == <<system_message(genre, summary, retrieved_hints, previous_nsi,
                               world_rules)>>
        m1 == IF summary # None THEN Append(m0, summary_message(summary)) ELSE m0
        m2 == IF retrieved_hints # None /\ Len(retrieved_hints) > 0
              THEN Append(m1, notes_message(retrieved_hints)) ELSE m1
        m3 == IF history # None THEN m2 \o history ELSE m2
    IN  Append(m3, prompt_message(context, genre))

----------------------------------------------------------------------------
(* Generation calls: every combination of arguments within the bounds *)

MaxHints == 2

MaxTurns == 2

Genres ==
    {<<"f", "a", "n", "t", "a", "s", "y">>,
     <<"H", "o", "r", "r", "o", "r">>,
     <<"h", "a", "r", "d", " ", "s", "c", "i", " ", "f", "i">>,
     <<"s", "o", "f", "t", " ", "s", "c", "i", " ", "f", "i">>,
     <<"r", "e", "a", "l", "i", "s", "m">>,
     <<"c", "y", "b", "e", "r", "p", "u", "n", "k">>,
     <<"s", "c", "i", "-", "f", "i">>}

\* the genre profiles the policy text of generate_story names, and the default
Profiles ==
    {<<"H", "A", "R", "D", "_", "S", "C", "I", "_", "F", "I">>,
     <<"S", "O", "F", "T", "_", "S", "C", "I", "_", "F", "I">>,
     <<"F", "A", "N", "T", "A", "S", "Y">>,
     <<"H", "O", "R", "R", "O", "R">>,
     <<"R", "E", "A", "L", "I", "S", "M">>,
     <<"G", "E", "N", "E", "R", "A", "L">>}

HintTexts == {"h1", "h2"}

Turns == {[user_prompt |-> "p1", ai_response |-> "r1"],
          [user_prompt |-> "p2", ai_response |-> "r2"]}

SeqsUpTo(S, n) == UNION {[1..k -> S] : k \in 0..n}

CallArgs ==
    [context : {"c"}, request_genre : Genres \cup {None}, story_genre : {None, GENERAL_lower, <<"f", "a", "n", "t", "a", "s", "y">>},
     turns : SeqsUpTo(Turns, MaxTurns), summary : {None, <<"s">>},
     retrieved_hints : SeqsUpTo(HintTexts, MaxHints), previous_nsi : {100, 70},
     world_rules : {None, <<"w">>}]

InitCall ==
    /\ ParseIdle /\ NsiIdle /\ StoryIdle
    /\ call \in CallArgs
    /\ sent = <<>>

\* generate_story(context, genre, history, summary, retrieved_hints, ...) with
\* the genre the route determined, up to the call of the service
GenerateStoryCall ==
    /\ sent = <<>>
    /\ sent' = build_messages(call.context,
                               route_genre(call.request_genre, call.story_genre),
                               history_of(call.turns), call.summary,
                               call.retrieved_hints, call.previous_nsi,
                               call.world_rules)
    /\ UNCHANGED <<call, parseVars, nsiVars, storyVars>>

NextCall == GenerateStoryCall

SpecCall == InitCall /\ [][NextCall]_vars

----------------------------------------------------------------------------
(* app/routes/story_routes.py: the requests on one story.                    *)
(* check_user_access gives the caller 'owner', 'collaborate' or 'view'.     *)

MaxMessages == 2

MaxRequests == 1

SUMMARY_EVERY == 5

SUMMARY_BATCH == 10

HISTORY_WINDOW == 10

AccessTypes == {"owner", "collaborate", "view"}

\* answers of the generation service: prose alone; prose and a block with
\* rules and two world-rule violations; a block with other rules and no
\* counts; a block whose rules field is blank
LlmOutputs ==
    {<<"a">>,
     <<"a", WS, WO, UR, COLON, WS, "r1", WS, VC, COLON, WS, WRV, COLON, WS, "2", WS, WC>>,
     <<"a", WS, WO, UR, COLON, "r2", VC, COLON, WC>>,
     <<"a", WS, WO, UR, COLON, WS, VC, COLON, WS, WRV, COLON, "2", WC>>,
     <<"a", WS, WO, VC, COLON, WS, WRV, COLON, "2", WC>>,
     <<"a", WO, UR, COLON, "r1", WC>>}

\* what extract_short_hint returns: '' when its call failed, else a hint
HintOutcomes == {None, <<"h">>}

\* request.prompt, request.content of an edit, and the summarizer's answer
PROMPT == <<"p">>

EDITED == <<"e">>

SUMMARY_TEXT == <<"s">>

\* generate_story_with_context, generate_continuation and refine_single_segment
\* as the routes call them: (text, new_hint, violations, updated_rules)
generation(raw, hint) ==
    LET r == generate_story_return(raw)
    IN  [ai_response |-> r.clean_output, new_hint |-> hint,
         violations |-> r.violations, updated_rules |-> r.updated_rules]

\* the results the generation call can hand a route
Generations == {generation(raw, hint) : raw \in LlmOutputs, hint \in HintOutcomes}

\* crud.get_world_rules / crud.update_world_rules: the column, read and set
get_world_rules == story_world_rules

update_world_rules(updated_rules) == updated_rules

\* crud.get_story_summary / crud.update_story_summary: the column, read and set
get_story_summary == story_summary

update_story_summary(new_summary) == new_summary

persist_world_rules_Always(current, updated_rules) == update_world_rules(updated_rules)

\* if updated_rules: crud.update_world_rules(db, story_id, updated_rules)
persist_world_rules(current, updated_rules) ==
    IF updated_rules # None THEN update_world_rules(updated_rules) ELSE current

\* crud.create_message: the next order_index is the number of messages
create_message(msgs, user_prompt, ai_response, hint_context, stability_score) ==
    Append(msgs, [order_index |-> Len(msgs), user_prompt |-> user_prompt,
                  ai_response |-> ai_response, hint_context |-> hint_context,
                  stability_score |-> stability_score])

\* crud.update_message: the response always, the hint only when one is given
update_message(msgs, i, ai_response, hint_context) ==
    [msgs EXCEPT ![i] =
        [@ EXCEPT !.ai_response = ai_response,
                  !.hint_context = IF hint_context # None THEN hint_context ELSE @]]

\* crud.create_hint
create_hint(hs, hint_text, message_index) ==
    Append(hs, [hint_text |-> hint_text, message_index |-> message_index])

\* crud.create_change_request
create_change_request(crs, change_type, new_content, target) ==
    Append(crs, [change_type |-> change_type, new_content |-> new_content,
                 target_message_id |-> target, status |-> "pending"])

\* json.dumps({"user_prompt": ..., "ai_response": ..., "hint_context": ...})
proposal(user_prompt, ai_response, hint_context) ==
    [user_prompt |-> user_prompt, ai_response |-> ai_response,
     hint_context |-> hint_context]

\* msgs[-n:]
last_n(msgs, n) == SubSeq(msgs, Max(1, Len(msgs) - n + 1), Len(msgs))

summary_due_EveryTenth(msgs) == Len(msgs) > 0 /\ Len(msgs) % SUMMARY_BATCH = 0

\* msg_count > 0 and msg_count % 5 == 0
summary_due(msgs) == Len(msgs) > 0 /\ Len(msgs) % SUMMARY_EVERY = 0

\* trigger_periodic_summary: the summary after it ran on msgs; summarized says
\* whether generate_summary answered (its exception is caught and logged)
trigger_periodic_summary(msgs, current_summary, summarized) ==
    IF summary_due(msgs) /\ summarized
    THEN update_story_summary(SUMMARY_TEXT)
    ELSE current_summary

\* one call to the language service: which function made it, whether it
\* answered, and for generate_summary its two arguments
ServiceCall(service, ok, batch, current_summary) ==
    [service |-> service, ok |-> ok, batch |-> batch,
     current_summary |-> current_summary]

\* the calls of a generation wrapper: generate_story, then extract_short_hint
\* on its text
generation_calls == <<ServiceCall("generation", TRUE, <<>>, None),
                      ServiceCall("hint", TRUE, <<>>, None)>>

failed_generation_calls_Retried ==
    <<ServiceCall("generation", FALSE, <<>>, None),
      ServiceCall("generation", FALSE, <<>>, None)>>

\* the call of generate_story that raised
failed_generation_calls == <<ServiceCall("generation", FALSE, <<>>, None)>>

\* the call trigger_periodic_summary makes on msgs, if any
summary_calls(msgs, current_summary, summarized) ==
    IF summary_due(msgs)
    THEN <<ServiceCall("summarization", summarized,
                       history_of(last_n(msgs, SUMMARY_BATCH)), current_summary)>>
    ELSE <<>>

Served(op, access, status, parsed, delta) ==
    [op |-> op, access |-> access, status |-> status, parsed |-> parsed,
     delta |-> delta, rules_before |-> story_world_rules, target |-> 0]

\* the same for a request on message m
ServedOn(m, op, access, status, parsed, delta) ==
    [Served(op, access, status, parsed, delta) EXCEPT !.target = m]

\* a request refused with 403 (no access), 400 or 404: nothing is touched
Refused(op, access, status) ==
    /\ last' = Served(op, access, status, FALSE, None)
    /\ inflight' = inflight
    /\ story_access' = story_access
    /\ outbound' = <<>>
    /\ UNCHANGED <<story_messages, story_world_rules, story_summary, story_hints,
                   story_change_requests>>

GenerationFailed_Fallback(op, access) ==
    /\ last' = Served(op, access, 200, FALSE, None)
    /\ inflight' = inflight
    /\ story_access' = story_access
    /\ outbound' = failed_generation_calls
    /\ story_messages' = create_message(story_messages, PROMPT, None, None, 100)
    /\ UNCHANGED <<story_world_rules, story_summary, story_hints,
                   story_change_requests>>

\* the generation call raised: the route answers 500
GenerationFailed(op, access) ==
    /\ last' = Served(op, access, 500, FALSE, None)
    /\ inflight' = inflight
    /\ story_access' = story_access
    /\ outbound' = failed_generation_calls
    /\ UNCHANGED <<story_messages, story_world_rules, story_summary, story_hints,
                   story_change_requests>>

\* a collaborator's request: what it asks for is saved as a proposal, unless
\* crud.create_change_request fails
Propose(op, access, delta, change_type, new_content, target) ==
    /\ Len(story_change_requests) < MaxRequests
    /\ \E db_ok \in BOOLEAN :
          /\ story_change_requests' =
                IF db_ok
                THEN create_change_request(story_change_requests, change_type,
                                           new_content, target)
                ELSE story_change_requests
          /\ last' = ServedOn(target, op, access, IF db_ok THEN 200 ELSE 500,
                               TRUE, delta)
    /\ inflight' = inflight
    /\ story_access' = story_access
    /\ outbound' = IF op = "edit" THEN <<>> ELSE generation_calls
    /\ UNCHANGED <<story_messages, story_world_rules, story_summary, story_hints>>

\* the answers generate_summary can give when trigger_periodic_summary runs
\* on msgs: none is asked for off the trigger
SummaryOutcomes(msgs) == IF summary_due(msgs) THEN BOOLEAN ELSE {FALSE}

\* the bound on the log; a story that starts with a longer log serves one
\* request
Room == Len(story_messages) < MaxMessages \/ last = NoRequest

\* the owner's turn of /generate and /continue from compute_nsi on
OwnerTurn(op, g) ==
    LET stability_score == compute_nsi(g.violations)
        saved == create_message(story_messages, PROMPT, g.ai_response,
                                g.new_hint, stability_score)
    IN  /\ Room
        /\ story_world_rules' = persist_world_rules(get_world_rules, g.updated_rules)
        /\ \/ /\ story_messages' = saved
              /\ story_hints' =
                    IF g.new_hint # None
                    THEN create_hint(story_hints, g.new_hint, Len(saved))
                    ELSE story_hints
              /\ \E summarized \in SummaryOutcomes(saved) :
                    /\ story_summary' =
                          trigger_periodic_summary(saved, get_story_summary,
                                                   summarized)
                    /\ inflight' = inflight
                    /\ story_access' = story_access
                    /\ outbound' = generation_calls \o
                          summary_calls(saved, get_story_summary, summarized)
              /\ last' = Served(op, "owner", 200, TRUE, g.updated_rules)
           \/ /\ last' = Served(op, "owner", 500, TRUE, g.updated_rules)
              /\ inflight' = inflight
              /\ story_access' = story_access
              /\ outbound' = generation_calls
              /\ UNCHANGED <<story_messages, story_hints, story_summary>>
        /\ UNCHANGED story_change_requests

\* a turn of /generate or /continue from the generation call on
Turn(op, access) ==
    \/ GenerationFailed(op, access)
    \/ \E g \in Generations :
          IF access = "collaborate"
          THEN Propose(op, access, g.updated_rules, "new_message",
                       proposal(PROMPT, g.ai_response, g.new_hint), 0)
          ELSE OwnerTurn(op, g)

\* POST /generate
generate_story_message(access) ==
    IF access \notin {"owner", "collaborate"} THEN Refused("generate", access, 403)
    ELSE Turn("generate", access)

\* POST /continue
continue_story(access) ==
    IF access \notin {"owner", "collaborate"} THEN Refused("continue", access, 403)
    ELSE IF Len(story_messages) = 0 THEN Refused("continue", access, 400)
    ELSE Turn("continue", access)

\* POST /refine of message m
refine_message(access, m) ==
    IF m \notin 1..Len(story_messages) THEN Refused("refine", access, 404)
    ELSE IF access \notin {"owner", "collaborate"} THEN Refused("refine", access, 403)
    ELSE \/ GenerationFailed("refine", access)
         \/ \E g \in Generations :
                  IF access = "collaborate"
                  THEN Propose("refine", access, g.updated_rules, "refine",
                               proposal(None, g.ai_response, None), m)
                  ELSE /\ \E db_ok \in BOOLEAN :
                            /\ story_messages' =
                                  IF db_ok
                                  THEN update_message(story_messages, m,
                                                      g.ai_response, g.new_hint)
                                  ELSE story_messages
                            /\ last' = ServedOn(m, "refine", access,
                                                IF db_ok THEN 200 ELSE 500, TRUE,
                                                g.updated_rules)
                       /\ inflight' = inflight
                       /\ story_access' = story_access
                       /\ outbound' = generation_calls
                       /\ UNCHANGED <<story_world_rules, story_summary, story_hints,
                                      story_change_requests>>

\* PUT /messages/{message_id}
edit_message(access, m) ==
    IF m \notin 1..Len(story_messages) THEN Refused("edit", access, 404)
    ELSE IF access \notin {"owner", "collaborate"} THEN Refused("edit", access, 403)
    ELSE IF access = "collaborate"
         THEN Propose("edit", access, None, "edit", proposal(None, EDITED, None), m)
         ELSE /\ \E db_ok \in BOOLEAN :
                    /\ story_messages' =
                          IF db_ok
                          THEN update_message(story_messages, m, EDITED,
                                              story_messages[m].hint_context)
                          ELSE story_messages
                    /\ last' = ServedOn(m, "edit", access,
                                        IF db_ok THEN 200 ELSE 500, FALSE, None)
              /\ inflight' = inflight
              /\ story_access' = story_access
              /\ outbound' = <<>>
              /\ UNCHANGED <<story_world_rules, story_summary, story_hints,
                             story_change_requests>>

\* PUT /stories/hash/{hash_id}/change_requests/{request_id}
update_change_request(access, r, status) ==
    IF access # "owner" THEN Refused("review", access, 403)
    ELSE IF r \notin 1..Len(story_change_requests) THEN Refused("review", access, 404)
    ELSE LET updated_request == [story_change_requests[r] EXCEPT !.status = status]
             new_content == updated_request.new_content
             saved == create_message(story_messages, new_content.user_prompt,
                                     new_content.ai_response,
                                     new_content.hint_context, NoScore)
         IN  /\ story_change_requests' =
                   [story_change_requests EXCEPT ![r] = updated_request]
             /\ IF status # "approved"
                THEN /\ outbound' = <<>>
                     /\ inflight' = inflight
                     /\ story_access' = story_access
                     /\ UNCHANGED <<story_messages, story_summary>>
                ELSE IF updated_request.change_type = "new_message"
                THEN /\ Room
                     /\ \E db_ok \in BOOLEAN :
                           LET after == IF db_ok THEN saved ELSE story_messages
                           IN  /\ story_messages' = after
                               /\ \E summarized \in SummaryOutcomes(after) :
                                     /\ story_summary' =
                                           trigger_periodic_summary(
                                               after, get_story_summary, summarized)
                                     /\ inflight' = inflight
                                     /\ story_access' = story_access
                                     /\ outbound' =
                                           summary_calls(after, get_story_summary,
                                                         summarized)
                ELSE /\ \E db_ok \in BOOLEAN :
                           story_messages' =
                               IF db_ok /\ updated_request.target_message_id
                                              \in 1..Len(story_messages)
                               THEN update_message(story_messages,
                                                   updated_request.target_message_id,
                                                   new_content.ai_response, None)
                               ELSE story_messages
                     /\ inflight' = inflight
                     /\ story_access' = story_access
                     /\ outbound' = <<>>
                     /\ UNCHANGED story_summary
             /\ last' = Served("review", access, 200, FALSE, None)
             /\ UNCHANGED <<story_world_rules, story_hints>>

Init == ParseIdle /\ NsiIdle /\ CallIdle /\ StoryIdle

Generate ==
    \E access \in AccessTypes :
        /\ generate_story_message(access)
        /\ UNCHANGED <<parseVars, nsiVars, callVars>>

Continue ==
    \E access \in AccessTypes :
        /\ continue_story(access)
        /\ UNCHANGED <<parseVars, nsiVars, callVars>>

Refine ==
    \E access \in AccessTypes, m \in 1..(Len(story_messages) + 1) :
        /\ refine_message(access, m)
        /\ UNCHANGED <<parseVars, nsiVars, callVars>>

Edit ==
    \E access \in AccessTypes, m \in 1..(Len(story_messages) + 1) :
        /\ edit_message(access, m)
        /\ UNCHANGED <<parseVars, nsiVars, callVars>>

Review ==
    \E access \in AccessTypes, r \in 1..MaxRequests,
       status \in {"approved", "rejected"} :
        /\ update_change_request(access, r, status)
        /\ UNCHANGED <<parseVars, nsiVars, callVars>>

Next == Generate \/ Continue \/ Refine \/ Edit \/ Review

Spec == Init /\ [][Next]_vars

\* the requests that add a turn to the log: /generate, /continue and the
\* review of a proposed one
NextTurns == Generate \/ Continue \/ Review

SpecTurns == Init /\ [][NextTurns]_vars

----------------------------------------------------------------------------
(* Hint Retriever: the hints a generation call is given out of the story's  *)
(* hint history and its Summary.  A hint and a summary are sequences of     *)
(* characters.                                                              *)

RECENT_K == 5

MAX_RETRIEVED == 10

KEYWORD_OVER == 4

IsBlank(c) == c \in {" ", "\n"}

Letters == {"a", "b", "c", "d", "e", "f", "g", "h", "i", "j", "k", "l", "m",
            "n", "o", "p", "q", "r", "s", "t", "u", "v", "w", "x", "y", "z"}

\* str.lower() on one character
LowerChar(c) ==
    IF \E l \in Letters : UpperChar(l) = c /\ l # c
    THEN CHOOSE l \in Letters : UpperChar(l) = c
    ELSE c

\* str.lower()
str_lower(s) == [i \in 1..Len(s) |-> LowerChar(s[i])]

\* the first position >= p of s that holds a blank, Len(s) + 1 when none does
RECURSIVE SkipWord(_, _)
SkipWord(s, p) ==
    IF p <= Len(s) /\ ~IsBlank(s[p]) THEN SkipWord(s, p + 1) ELSE p

\* str.split(): the runs of non-blank characters, in order
RECURSIVE split(_)
split(s) ==
    IF s = <<>> THEN <<>>
    ELSE IF IsBlank(Head(s)) THEN split(Tail(s))
    ELSE <<SubSeq(s, 1, SkipWord(s, 1) - 1)>> \o split(Tail_(s, SkipWord(s, 1)))

\* t in s, for strings
Contains(s, t) ==
    \E i \in 0..(Len(s) - Len(t)) : SubSeq(s, i + 1, i + Len(t)) = t

\* the lowercase tokens of the Summary that are longer than four characters
summary_keywords(summary) ==
    {w \in Range(split(str_lower(summary))) : Len(w) > KEYWORD_OVER}

\* a hint is relevant when its lowercase text contains a keyword
is_relevant(hint, keywords) ==
    \E k \in keywords : Contains(str_lower(hint), k)

\* the older hints that are relevant, appended in order, duplicates skipped
RECURSIVE add_relevant(_, _, _)
add_relevant(out, older, keywords) ==
    IF older = <<>> THEN out
    ELSE add_relevant(IF is_relevant(Head(older), keywords)
                         /\ Head(older) \notin Range(out)
                      THEN Append(out, Head(older)) ELSE out,
                      Tail(older), keywords)

retrieve_hints_NoCap(hint_history, summary) ==
    add_relevant(last_n(hint_history, RECENT_K),
                 SubSeq(hint_history, 1, Max(0, Len(hint_history) - RECENT_K)),
                 summary_keywords(summary))

retrieve_hints_Oldest(hint_history, summary) ==
    SubSeq(hint_history, 1, IF Len(hint_history) < RECENT_K
                            THEN Len(hint_history) ELSE RECENT_K)

\* the Hint Retriever: the last five hints, then the relevant older ones, at
\* most ten in all
retrieve_hints(hint_history, summary) ==
    LET recent == last_n(hint_history, RECENT_K)
        older == SubSeq(hint_history, 1, Max(0, Len(hint_history) - RECENT_K))
        all == add_relevant(recent, older, summary_keywords(summary))
    IN  SubSeq(all, 1, IF Len(all) < MAX_RETRIEVED THEN Len(all) ELSE MAX_RETRIEVED)

----------------------------------------------------------------------------
(* app/ai/hints.py: extract_short_hint.  The producer's answer is a         *)
(* sequence of characters, or the call raises.                              *)

HINT_WORDS == 10

\* str.strip()
RECURSIVE str_strip(_)
str_strip(s) ==
    IF s # <<>> /\ IsBlank(Head(s)) THEN str_strip(Tail(s))
    ELSE IF s # <<>> /\ IsBlank(s[Len(s)]) THEN str_strip(SubSeq(s, 1, Len(s) - 1))
    ELSE s

\* ' '.join(words)
RECURSIVE join(_)
join(words) ==
    IF words = <<>> THEN <<>>
    ELSE IF Len(words) = 1 THEN words[1]
    ELSE words[1] \o <<" ">> \o join(Tail(words))

extract_short_hint_NoCap(answered, response_content) ==
    IF ~answered THEN <<>> ELSE join(split(str_strip(response_content)))

\* extract_short_hint: answered is false when the producer's call, or reading
\* its response, raised
extract_short_hint(answered, response_content) ==
    IF ~answered THEN <<>>
    ELSE LET hint == str_strip(response_content)
             words == SubSeq(split(hint), 1,
                             IF Len(split(hint)) < HINT_WORDS
                             THEN Len(split(hint)) ELSE HINT_WORDS)
         IN  join(words)

\* i as two decimal digits
tag(i) ==
    <<CHOOSE c \in Digits : DigitValue(c) = i \div 10,
      CHOOSE c \in Digits : DigitValue(c) = i % 10>>

MaxPieces == 12

\* the i-th piece of a producer's answer: a word of its own, after a line
\* break or before a blank
HintPieces(i) == {<<"w">> \o tag(i) \o <<" ">>, <<"\n", "w">> \o tag(i)}

EmitPiece ==
    /\ result = NoResult
    /\ emitted < MaxPieces
    /\ \E chunk \in HintPieces(emitted + 1) : content' = content \o chunk
    /\ emitted' = emitted + 1
    /\ UNCHANGED <<result, nsiVars, callVars, storyVars>>

\* the producer answered with content
ExtractHint ==
    /\ result = NoResult
    /\ result' = [hint |-> extract_short_hint(TRUE, content), answered |-> TRUE]
    /\ UNCHANGED <<content, emitted, nsiVars, callVars, storyVars>>

\* the producer's call raised, whatever it had produced
ExtractHintFailed ==
    /\ result = NoResult
    /\ result' = [hint |-> extract_short_hint(FALSE, content), answered |-> FALSE]
    /\ UNCHANGED <<content, emitted, nsiVars, callVars, storyVars>>

NextExtract == EmitPiece \/ ExtractHint \/ ExtractHintFailed

SpecExtract == InitParse /\ [][NextExtract]_vars

----------------------------------------------------------------------------
(* app/routes/story_routes.py: the context a request gathers from the story *)
(* and hands to the generation call.                                        *)

\* previous_hints = [m.hint_context for m in messages if m.hint_context]
RECURSIVE previous_hints_of_All(_)
previous_hints_of_All(msgs) ==
    IF msgs = <<>> THEN <<>>
    ELSE <<Head(msgs).hint_context>> \o previous_hints_of_All(Tail(msgs))

RECURSIVE previous_hints_of(_)
previous_hints_of(msgs) ==
    IF msgs = <<>> THEN <<>>
    ELSE IF Head(msgs).hint_context # None
         THEN <<Head(msgs).hint_context>> \o previous_hints_of(Tail(msgs))
         ELSE previous_hints_of(Tail(msgs))

previous_nsi_of_First(msgs) ==
    IF msgs # <<>> /\ msgs[1].stability_score # NoScore
    THEN msgs[1].stability_score
    ELSE 100

\* the stability score of the last message, 100 when there is none
previous_nsi_of(msgs) ==
    IF msgs # <<>> /\ msgs[Len(msgs)].stability_score # NoScore
    THEN msgs[Len(msgs)].stability_score
    ELSE 100

\* a message as a turn of the history
turn_of(m) == [user_prompt |-> m.user_prompt, ai_response |-> m.ai_response]

window_turns_Oldest(msgs) ==
    [i \in 1..(IF Len(msgs) < HISTORY_WINDOW THEN Len(msgs) ELSE HISTORY_WINDOW)
        |-> turn_of(msgs[i])]

\* recent_messages = existing_messages[-10:], as turns
window_turns(msgs) ==
    LET recent_messages == last_n(msgs, HISTORY_WINDOW)
    IN  [i \in 1..Len(recent_messages) |-> turn_of(recent_messages[i])]

\* crud.get_previous_messages: the messages whose order_index is below the one
\* given
get_previous_messages(msgs, before_order) ==
    SelectSeq(msgs, LAMBDA m : m.order_index < before_order)

\* the arguments generate_story gets from a wrapper called with this context
wrapper_call(turns, summary, previous_hints, previous_nsi, world_rules) ==
    [context |-> PROMPT, request_genre |-> None, story_genre |-> None,
     turns |-> turns, summary |-> summary,
     retrieved_hints |-> retrieve_hints(previous_hints, summary),
     previous_nsi |-> previous_nsi, world_rules |-> world_rules]

\* /generate: the first message is asked for without history, summary or hints
generate_context(msgs) ==
    IF Len(msgs) = 0
    THEN wrapper_call(<<>>, None, <<>>, previous_nsi_of(msgs), get_world_rules)
    ELSE wrapper_call(window_turns(msgs), get_story_summary,
                      previous_hints_of(msgs), previous_nsi_of(msgs),
                      get_world_rules)

\* /continue
continue_context(msgs) ==
    wrapper_call(window_turns(msgs), get_story_summary, previous_hints_of(msgs),
                 previous_nsi_of(msgs), get_world_rules)

\* /refine of message m
refine_context(msgs, m) ==
    LET previous_messages == get_previous_messages(msgs, msgs[m].order_index)
    IN  wrapper_call(window_turns(previous_messages), get_story_summary,
                     previous_hints_of(previous_messages),
                     previous_nsi_of(previous_messages), get_world_rules)

\* a request up to its call of the generation service: the arguments it
\* gathered and the message list generate_story builds from them
Assemble(op, m, access, args) ==
    /\ call = NoCall
    /\ call' = args
    /\ sent' = build_messages(args.context,
                               route_genre(args.request_genre, args.story_genre),
                               history_of(args.turns), args.summary,
                               args.retrieved_hints, args.previous_nsi,
                               args.world_rules)
    /\ last' = ServedOn(m, op, access, 0, FALSE, None)
    /\ UNCHANGED <<story_messages, story_world_rules, story_summary, story_hints,
                   story_change_requests, outbound, inflight, story_access, parseVars, nsiVars>>

AssembleGenerate ==
    \E access \in {"owner", "collaborate"} :
        Assemble("generate", 0, access, generate_context(story_messages))

AssembleContinue ==
    \E access \in {"owner", "collaborate"} :
        /\ Len(story_messages) > 0
        /\ Assemble("continue", 0, access, continue_context(story_messages))

AssembleRefine ==
    \E access \in {"owner", "collaborate"}, m \in 1..Len(story_messages) :
        Assemble("refine", m, access, refine_context(story_messages, m))

NextContext == AssembleGenerate \/ AssembleContinue \/ AssembleRefine

MaxLog == 15

\* a persisted log of n turns, every turn with its own prompt, response and
\* hint
persisted_log(n) ==
    [i \in 1..n |->
        [order_index |-> i - 1, user_prompt |-> <<"p">> \o tag(i),
         ai_response |-> <<"a">> \o tag(i), hint_context |-> <<"h">> \o tag(i),
         stability_score |-> IF i % 2 = 0 THEN 70 ELSE 100]]

\* the hint rows of that log
persisted_hints(n) ==
    [i \in 1..n |-> [hint_text |-> <<"h">> \o tag(i), message_index |-> i]]

\* the summary of a story that has one
PRIOR_SUMMARY == <<"o">>

\* a story that has been written for a while: its log, rules and summary
InitWindow ==
    /\ ParseIdle /\ NsiIdle /\ CallIdle
    /\ \E n \in 0..MaxLog :
          /\ story_messages = persisted_log(n)
          /\ story_hints = persisted_hints(n)
    /\ story_world_rules \in {None, <<"r1">>}
    /\ story_summary \in {None, PRIOR_SUMMARY}
    /\ story_change_requests = <<>>
    /\ last = NoRequest
    /\ outbound = <<>>
    /\ inflight = NoInflight
    /\ story_access = <<>>

SpecWindow == InitWindow /\ [][NextContext]_vars

\* the same story, with or without a pending proposal of a new message
InitLog ==
    /\ ParseIdle /\ NsiIdle /\ CallIdle
    /\ \E n \in 0..MaxLog :
          /\ story_messages = persisted_log(n)
          /\ story_hints = persisted_hints(n)
    /\ story_world_rules \in {None, <<"r1">>}
    /\ story_summary \in {None, PRIOR_SUMMARY}
    /\ story_change_requests \in
          {<<>>, create_change_request(<<>>, "new_message",
                                       proposal(PROMPT, <<"a">>, <<"h">>), 0)}
    /\ last = NoRequest
    /\ outbound = <<>>
    /\ inflight = NoInflight
    /\ story_access = <<>>

\* one request served on it
NextLog == last = NoRequest /\ Next

SpecLog == InitLog /\ [][NextLog]_vars

----------------------------------------------------------------------------
(* Stories whose messages carry repeated, empty, matching and non-matching  *)
(* hints, and the requests that retrieve from them.                         *)

MaxRepeats == 6

MaxHistory == 11

\* hint histories as create_message leaves them in Message.hint_context: short
\* ones where a text can repeat or be empty, and long ones of distinct texts
\* where any of the older hints may hold the word of the summary and the last
\* five all do or all do not
HintHistories ==
    UNION {[1..n -> {None, <<"D", "r", "a", "g", "o", "n">>, <<"c", "a", "v", "e">>}] :
              n \in 0..MaxRepeats}
    \cup UNION {{[i \in 1..n |-> IF i \in S
                                 THEN <<"D", "R", "A", "G", "O", "N">> \o tag(i)
                                 ELSE <<"c", "a", "v", "e">> \o tag(i)] :
                    S \in {T \in SUBSET (1..n) :
                              \A i, j \in (n - RECENT_K + 1)..n :
                                  (i >= 1 /\ j >= 1) => ((i \in T) = (j \in T))}} :
                n \in 0..MaxHistory}

\* summaries: absent, one with a long word and a short one, one whose long
\* word is in no hint
Summaries ==
    {None,
     <<"D", "r", "a", "g", "o", "n", "\n", "c", "a", "v", "e">>,
     <<"t", "h", "e", " ", "c", "a", "v", "e", "s">>}

\* the log whose i-th message carries the i-th hint
hinted_log(hint_history) ==
    LET log == persisted_log(Len(hint_history))
    IN  [i \in 1..Len(hint_history) |->
            [log[i] EXCEPT !.hint_context = hint_history[i]]]

InitHints ==
    /\ ParseIdle /\ NsiIdle /\ CallIdle
    /\ \E hint_history \in HintHistories :
          /\ story_messages = hinted_log(hint_history)
          /\ story_hints =
                SelectSeq([i \in 1..Len(hint_history) |->
                              [hint_text |-> hint_history[i], message_index |-> i]],
                          LAMBDA h : h.hint_text # None)
    /\ story_world_rules = None
    /\ story_summary \in Summaries
    /\ story_change_requests = <<>>
    /\ last = NoRequest
    /\ outbound = <<>>
    /\ inflight = NoInflight
    /\ story_access = <<>>

SpecHints == InitHints /\ [][NextContext]_vars

----------------------------------------------------------------------------
(* One request that adds a turn to a persisted story, then the context of   *)
(* the next /generate or /continue.                                          *)

NextLater ==
    \/ last = NoRequest /\ NextTurns
    \/ last # NoRequest /\ (AssembleGenerate \/ AssembleContinue)

SpecLater == InitLog /\ [][NextLater]_vars

----------------------------------------------------------------------------
(* Stories whose messages carry the scores compute_nsi can give, or none,   *)
(* and the stabilization clause of the policy text of generate_story.       *)

STABILIZE_BELOW == 80

\* "If PREVIOUS_NSI_SCORE ({previous_nsi}) < 80": whether the clause applies
\* to the score the policy text carries
adaptive_stabilization(previous_nsi) == previous_nsi < STABILIZE_BELOW

MaxScored == 3

\* scores as they are stored: none for an approved proposal, else an NSI
StoredScores == {NoScore, 0, 75, 80, 100}

\* the log whose i-th message carries the i-th score
scored_log(scores) ==
    LET log == persisted_log(Len(scores))
    IN  [i \in 1..Len(scores) |-> [log[i] EXCEPT !.stability_score = scores[i]]]

InitScores ==
    /\ ParseIdle /\ NsiIdle /\ CallIdle
    /\ \E n \in 0..MaxScored :
          /\ \E scores \in [1..n -> StoredScores] : story_messages = scored_log(scores)
          /\ story_hints = persisted_hints(n)
    /\ story_world_rules = None
    /\ story_summary \in {None, PRIOR_SUMMARY}
    /\ story_change_requests = <<>>
    /\ last = NoRequest
    /\ outbound = <<>>
    /\ inflight = NoInflight
    /\ story_access = <<>>

SpecScores == InitScores /\ [][NextContext]_vars

----------------------------------------------------------------------------
(* Two requests of the owner on one story served at the same time.  The     *)
(* handlers are plain functions, which the framework runs on worker         *)
(* threads, each with a database session of its own; every crud call        *)
(* commits by itself and nothing locks the story.  The language service is  *)
(* a function of what it is given.                                          *)

InflightIds == {"A", "B"}

\* the updated rule set the generation answers with: the rules it was given
\* and the rule of request p
merged_rules(world_rules, p) == world_rules \o <<p>>

\* the summary generate_summary answers with: a rewrite of the summary it was
\* given for the messages it was given
summarized_text(current_summary, msg_count) == current_summary \o tag(msg_count)

\* lines 498-564: the request reads the story's summary and rules and calls
\* the generation with them
ReadContext(p) ==
    /\ inflight # NoInflight
    /\ inflight.at[p] = "context"
    /\ inflight' = [inflight EXCEPT
                       !.at[p] = "rules",
                       !.read[p].world_rules = get_world_rules,
                       !.read[p].summary = get_story_summary]
    /\ UNCHANGED <<story_messages, story_world_rules, story_summary, story_hints,
                   story_change_requests, last, outbound,
                   story_access, parseVars, nsiVars, callVars>>

\* lines 569-571: the updated rules replace the stored ones
WriteRules(p) ==
    /\ inflight # NoInflight
    /\ inflight.at[p] = "rules"
    /\ story_world_rules' =
          update_world_rules(merged_rules(inflight.read[p].world_rules, p))
    /\ inflight' = [inflight EXCEPT !.at[p] = "message"]
    /\ UNCHANGED <<story_messages, story_summary, story_hints,
                   story_change_requests, last, outbound,
                   story_access, parseVars, nsiVars, callVars>>

\* crud.create_message, lines 109-112: the story's messages are counted for
\* the next order_index
CountMessages(p) ==
    /\ inflight # NoInflight
    /\ inflight.at[p] = "message"
    /\ inflight' = [inflight EXCEPT !.at[p] = "insert",
                                    !.read[p].max_order = Len(story_messages)]
    /\ UNCHANGED <<story_messages, story_world_rules, story_summary, story_hints,
                   story_change_requests, last, outbound,
                   story_access, parseVars, nsiVars, callVars>>

\* crud.create_message, lines 114-130, and lines 583-588 of the route: the
\* message is inserted with the order_index computed and its hint is created
PersistMessage(p) ==
    /\ inflight # NoInflight
    /\ inflight.at[p] = "insert"
    /\ story_messages' =
          Append(story_messages,
                 [order_index |-> inflight.read[p].max_order, user_prompt |-> PROMPT,
                  ai_response |-> <<p>>, hint_context |-> <<p>>,
                  stability_score |-> 100])
    /\ story_hints' = create_hint(story_hints, <<p>>, Len(story_messages) + 1)
    /\ inflight' = [inflight EXCEPT !.at[p] = "trigger"]
    /\ UNCHANGED <<story_world_rules, story_summary, story_change_requests,
                   last, outbound, story_access, parseVars, nsiVars, callVars>>

\* trigger_periodic_summary, lines 453-468: the messages are counted and, at
\* a multiple of five, the summary is read and the summarizer called
TriggerRead(p) ==
    /\ inflight # NoInflight
    /\ inflight.at[p] = "trigger"
    /\ inflight' =
          IF summary_due(story_messages)
          THEN [inflight EXCEPT
                   !.at[p] = "summary",
                   !.read[p].summary = summarized_text(get_story_summary,
                                                       Len(story_messages))]
          ELSE [inflight EXCEPT !.at[p] = "done"]
    /\ UNCHANGED <<story_messages, story_world_rules, story_summary, story_hints,
                   story_change_requests, last, outbound,
                   story_access, parseVars, nsiVars, callVars>>

\* trigger_periodic_summary, lines 469-470: the new summary replaces the
\* stored one
TriggerWrite(p) ==
    /\ inflight # NoInflight
    /\ inflight.at[p] = "summary"
    /\ story_summary' = update_story_summary(inflight.read[p].summary)
    /\ inflight' = [inflight EXCEPT !.at[p] = "done"]
    /\ UNCHANGED <<story_messages, story_world_rules, story_hints,
                   story_change_requests, last, outbound,
                   story_access, parseVars, nsiVars, callVars>>

InitRace ==
    /\ ParseIdle /\ NsiIdle /\ CallIdle
    /\ \E n \in 0..MaxLog :
          /\ story_messages = persisted_log(n)
          /\ story_hints = persisted_hints(n)
    /\ story_world_rules \in {None, <<"r1">>}
    /\ story_summary \in {None, PRIOR_SUMMARY}
    /\ story_change_requests = <<>>
    /\ last = NoRequest
    /\ outbound = <<>>
    /\ story_access = <<>>
    /\ inflight =
          [origin |-> [world_rules |-> story_world_rules,
                       summary |-> story_summary, messages |-> story_messages],
           at |-> [p \in InflightIds |-> "context"],
           read |-> [p \in InflightIds |->
                        [world_rules |-> None, summary |-> None, max_order |-> 0]]]

NextRace ==
    \E p \in InflightIds :
        \/ ReadContext(p)
        \/ WriteRules(p)
        \/ CountMessages(p)
        \/ PersistMessage(p)
        \/ TriggerRead(p)
        \/ TriggerWrite(p)

SpecRace == InitRace /\ [][NextRace]_vars

----------------------------------------------------------------------------
(* What the wire format means, stated without the regular expressions *)

MinOf(S) == CHOOSE x \in S : \A y \in S : x <= y

MaxOf(S) == CHOOSE x \in S : \A y \in S : x >= y

\* the text holds a <WRLD> delimiter with a </WRLD> delimiter somewhere after it
HasBlock(s) == \E i, j \in 1..Len(s) : i < j /\ s[i] = WO /\ s[j] = WC

\* the contents of the first block of a text that has one
FirstBlock(s) ==
    LET i == MinOf({k \in 1..Len(s) : s[k] = WO})
        j == MinOf({k \in (i + 1)..Len(s) : s[k] = WC})
    IN  SubSeq(s, i + 1, j - 1)

\* position i of b holds the field label: the name, blanks, then the colon at p
LabelAt(b, label, i, p) ==
    /\ i \in 1..Len(b) /\ p \in (i + 1)..Len(b)
    /\ b[i] = label /\ b[p] = COLON
    /\ \A k \in (i + 1)..(p - 1) : IsSpace(b[k])

\* s without its leading and trailing blanks
Trimmed(s) ==
    LET solid == {k \in 1..Len(s) : ~IsSpace(s[k])}
    IN  IF solid = {} THEN <<>> ELSE SubSeq(s, MinOf(solid), MaxOf(solid))

\* the UPDATED_RULES labels of b that a VIOLATION_COUNTS label follows,
\* as <<position of the label, position of its colon>>
RuleLabels(b) ==
    {ip \in (1..Len(b)) \X (1..Len(b)) :
        /\ LabelAt(b, UR, ip[1], ip[2])
        /\ \E e, p \in 1..Len(b) : e > ip[2] /\ LabelAt(b, VC, e, p)}

\* the text of b between its first such UPDATED_RULES label and the start of
\* the first VIOLATION_COUNTS label after it
RulesField(b) ==
    LET first == CHOOSE ip \in RuleLabels(b) : \A o \in RuleLabels(b) : ip[1] <= o[1]
        e == MinOf({k \in (first[2] + 1)..Len(b) :
                        \E p \in 1..Len(b) : LabelAt(b, VC, k, p)})
    IN  SubSeq(b, first[2] + 1, e - 1)

\* the rule delta the wire format defines for a raw output
RuleDelta(raw_output) ==
    IF ~HasBlock(raw_output) THEN <<>>
    ELSE IF RuleLabels(FirstBlock(raw_output)) = {} THEN <<>>
    ELSE Trimmed(RulesField(FirstBlock(raw_output)))

\* position i of b starts a well-formed entry of category k with count n: the
\* category name standing alone, its colon, and a value made of digits only
WellFormedEntry(b, k, i, n) ==
    /\ i = 1 \/ IsSpace(b[i - 1])
    /\ \E p \in 1..Len(b) :
          /\ LabelAt(b, k, i, p)
          /\ \E q, e \in (p + 1)..Len(b) :
                /\ q <= e
                /\ \A x \in (p + 1)..(q - 1) : IsSpace(b[x])
                /\ \A x \in q..e : IsDigit(b[x])
                /\ e = Len(b) \/ IsSpace(b[e + 1])
                /\ n = ToInt(SubSeq(b, q, e))

\* C3: for a raw output that holds no <WRLD>...</WRLD> block, generate_story
\* returns the all-zero violation report, the empty rule update, and a visible
\* text equal to the raw output.
C3_NoBlockDefaults ==
    (result # NoResult /\ ~HasBlock(result.raw_output)) =>
        /\ result.violations = ZeroViolations
        /\ compute_nsi(result.violations) = 100
        /\ result.updated_rules = <<>>
        /\ result.clean_output = result.raw_output

\* a parsed raw output without a block that nevertheless holds an opening
\* delimiter, a category entry and the rule labels
C3_Witness ==
    /\ result # NoResult
    /\ ~HasBlock(result.raw_output)
    /\ {WO, CI, UR, VC} \subseteq Range(result.raw_output)

\* C4: for a raw output that holds a well-formed <WRLD>...</WRLD> block, the
\* visible text returned by generate_story holds no <WRLD> delimiter.
C4_NoDelimiterInVisibleText ==
    (result # NoResult /\ HasBlock(result.raw_output)) =>
        WO \notin Range(result.clean_output)

\* C5: the parsed report has exactly the four categories, each a non-negative
\* integer, and a category has a non-zero count only when the block holds a
\* well-formed entry of that very category with that count (a missing or
\* malformed value, or an entry of another category, leaves it 0).
C5_CountsOnlyFromWellFormedEntries ==
    result # NoResult =>
        /\ DOMAIN result.violations = CategorySet
        /\ \A k \in CategorySet :
              /\ result.violations[k] \in Nat
              /\ result.violations[k] # 0 =>
                    /\ HasBlock(result.raw_output)
                    /\ \E i \in 1..Len(FirstBlock(result.raw_output)) :
                          WellFormedEntry(FirstBlock(result.raw_output), k, i,
                                          result.violations[k])

\* C8: the extracted rule delta is the trimmed text of the first block between
\* the UPDATED_RULES label and the start of the VIOLATION_COUNTS field, and the
\* empty string when the block or either label is absent.
C8_RuleDeltaIsTrimmedField ==
    result # NoResult => result.updated_rules = RuleDelta(result.raw_output)

\* a parsed raw output whose rules field is not blank and had blanks to trim
C8_Witness ==
    /\ result # NoResult
    /\ HasBlock(result.raw_output)
    /\ RuleLabels(FirstBlock(result.raw_output)) # {}
    /\ result.updated_rules # <<>>
    /\ RulesField(FirstBlock(result.raw_output)) # result.updated_rules

\* the report with one more violation of category k
Bumped(v, k) ==
    [x \in DOMAIN v \cup {k} |-> IF x = k THEN Get(v, k) + 1 ELSE v[x]]

\* C1: compute_nsi returns max(0, 100 - 10*CI - 10*TC - 15*WRV - 5*IGF): 100
\* for the all-zero report, never more after one more violation of any one
\* category, and the same whatever else the report carries.
C1_NsiFormula ==
    score # NoScore =>
        /\ score = Max(0, 100 - 10 * Get(report, CI) - 10 * Get(report, TC)
                              - 15 * Get(report, WRV) - 5 * Get(report, IGF))
        /\ score \in 0..100
        /\ (\A k \in CategorySet : Get(report, k) = 0) => score = 100
        /\ \A k \in CategorySet : compute_nsi(Bumped(report, k)) <= score
        /\ compute_nsi([k \in CategorySet |-> Get(report, k)]) = score

\* a scored report whose deductions exceed 100, with a foreign key and a
\* missing category
C1_Witness ==
    /\ score = 0
    /\ 10 * Get(report, CI) + 10 * Get(report, TC)
          + 15 * Get(report, WRV) + 5 * Get(report, IGF) > 100
    /\ OtherKey \in DOMAIN report
    /\ CategorySet \ DOMAIN report # {}

\* C9: the message list of a generation call is the system policy message,
\* then the summary message if there is a summary, then the notes message if
\* there are hints, then the history messages in their order, then one user
\* message with the current instruction, which is the last element.
C9_MessageOrder ==
    sent # <<>> =>
        LET ns == IF call.summary # None THEN 1 ELSE 0
            nh == IF call.retrieved_hints # None THEN 1 ELSE 0
            h  == history_of(call.turns)
        IN  /\ Len(sent) = 1 + ns + nh + Len(h) + 1
            /\ sent[1].role = "system" /\ sent[1].kind = "policy"
            /\ ns = 1 => sent[2] = summary_message(call.summary)
            /\ nh = 1 => sent[2 + ns] = notes_message(call.retrieved_hints)
            /\ \A i \in 1..Len(h) : sent[1 + ns + nh + i] = h[i]
            /\ sent[Len(sent)].role = "user"
            /\ sent[Len(sent)].kind = "instruction"
            /\ sent[Len(sent)].body.context = call.context
            /\ Cardinality({i \in 1..Len(sent) : sent[i].kind = "instruction"}) = 1
            /\ Cardinality({i \in 1..Len(sent) : sent[i].kind = "policy"}) = 1

\* a call with a summary, hints and two turns of history
C9_Witness ==
    /\ sent # <<>>
    /\ call.summary # None
    /\ Len(call.retrieved_hints) = 2
    /\ Len(call.turns) = 2
    /\ call.turns[1] # call.turns[2]

\* C10: whatever genre the request or the story carries, the active genre in
\* the policy message of a generation call is one of the fixed profiles.
C10_ActiveGenreIsAProfile ==
    sent # <<>> => sent[1].body.active_genre \in Profiles

\* C2: every persisted message of a story carries a stability score that is
\* an integer in 0..100, the NSI of the violation report of a generation.
C2_EveryMessageScored ==
    \A i \in 1..Len(story_messages) :
        /\ story_messages[i].stability_score \in 0..100
        /\ \E g \in Generations :
              story_messages[i].stability_score = compute_nsi(g.violations)

\* C6: after a generate or continue turn whose parsed rule delta is empty, the
\* story's World Rule Set is what it was before the turn.
C6_EmptyDeltaKeepsRules ==
    (last.op \in {"generate", "continue"} /\ last.parsed /\ last.delta = None)
        => story_world_rules = last.rules_before

\* an owner's turn saved with an empty delta on a story that had rules
C6_Witness ==
    /\ last.op \in {"generate", "continue"}
    /\ last.access = "owner"
    /\ last.status = 200
    /\ last.parsed
    /\ last.delta = None
    /\ last.rules_before # None
    /\ story_world_rules = last.rules_before
    /\ Len(story_messages) = 2

\* C7: the World Rule Set changes only at a successful owner generate or
\* continue turn with a non-empty parsed delta, where it becomes that delta;
\* once it is non-empty it is never empty again.
C7_RulesChangeOnlyAtSuccessfulOwnerTurn ==
    /\ story_world_rules # last.rules_before =>
          /\ last.op \in {"generate", "continue"}
          /\ last.access = "owner"
          /\ last.status = 200
          /\ last.delta # None
          /\ story_world_rules = last.delta
    /\ last.rules_before # None => story_world_rules # None

\* C11: the History Window a generate or continue call is given is the turns
\* of the last min(10, n) messages of the log of n messages, in insertion
\* order; for a refine of message m it is the last min(10, k) of the k messages
\* that precede m. It is recomputed from the log at every call.
C11_HistoryWindowIsSuffix ==
    call # NoCall =>
        LET k == IF last.op = "refine" THEN last.target - 1 ELSE Len(story_messages)
            w == IF k < 10 THEN k ELSE 10
        IN  /\ Len(call.turns) = w
            /\ \A i \in 1..w :
                  /\ call.turns[i].user_prompt = story_messages[k - w + i].user_prompt
                  /\ call.turns[i].ai_response = story_messages[k - w + i].ai_response
            /\ \A i \in 1..w :
                  \E j \in 1..Len(sent) :
                      /\ j < Len(sent)
                      /\ sent[j].role = "user"
                      /\ sent[j].body = story_messages[k - w + i].user_prompt
                      /\ sent[j + 1].role = "assistant"
                      /\ sent[j + 1].body = story_messages[k - w + i].ai_response
            /\ Cardinality({j \in 1..Len(sent) : sent[j].kind = "history"}) = 2 * w

\* a continue on a log of more than ten messages
C11_Witness ==
    /\ last.op = "continue"
    /\ Len(story_messages) = 12
    /\ Len(call.turns) = 10
    /\ call.turns[1].user_prompt = story_messages[3].user_prompt

\* a refine with more than ten messages before its message
C11_WitnessRefine ==
    /\ last.op = "refine"
    /\ last.target = 12
    /\ Len(call.turns) = 10

\* the calls of generate_summary the last request made
SummarizerCalls == {i \in 1..Len(outbound) : outbound[i].service = "summarization"}

\* C12: after a turn that persists a new message the Rolling Summarizer is
\* invoked if and only if the message count is then a positive multiple of 5,
\* with the last 10 messages (all of them when fewer) as its batch; when it
\* answers, the stored Summary becomes its output, and when it is not invoked
\* the stored Summary is unchanged.
C12_SummaryEveryFifthMessage ==
    [][Len(story_messages') = Len(story_messages) + 1 =>
          LET n == Len(story_messages')
              w == IF n < 10 THEN n ELSE 10
              calls == {i \in 1..Len(outbound') : outbound'[i].service = "summarization"}
          IN  /\ (calls # {}) <=> (n > 0 /\ n % 5 = 0)
              /\ Cardinality(calls) <= 1
              /\ \A i \in calls :
                    /\ Len(outbound'[i].batch) = 2 * w
                    /\ \A j \in 1..w :
                          /\ outbound'[i].batch[2 * j - 1].body
                                = story_messages'[n - w + j].user_prompt
                          /\ outbound'[i].batch[2 * j].body
                                = story_messages'[n - w + j].ai_response
                    /\ outbound'[i].current_summary = story_summary
                    /\ outbound'[i].ok => story_summary' = SUMMARY_TEXT
              /\ calls = {} => story_summary' = story_summary]_vars

\* the fifteenth message was saved and the summarizer rewrote the summary
\* from the last ten
C12_Witness ==
    /\ Len(story_messages) = 15
    /\ last.status = 200
    /\ last.op \in {"generate", "continue"}
    /\ \E i \in SummarizerCalls : outbound[i].ok /\ Len(outbound[i].batch) = 20
    /\ story_summary = SUMMARY_TEXT

\* the calls the last request made to a function of the language service
CallsOf(service) == {i \in 1..Len(outbound) : outbound[i].service = service}

\* C13: when the call to the generation service fails during generate,
\* continue or refine, the request answers with a failure and the story's
\* messages, hints, change requests, World Rule Set and Summary are what they
\* were before the request.
C13_FailedGenerationPersistsNothing ==
    [][(\E i \in 1..Len(outbound') :
            outbound'[i].service = "generation" /\ ~outbound'[i].ok) =>
          /\ last'.op \in {"generate", "continue", "refine"}
          /\ last'.status = 500
          /\ UNCHANGED <<story_messages, story_hints, story_change_requests,
                         story_world_rules, story_summary>>]_vars

\* a generation call failed on a story that has messages, rules and a summary
C13_Witness ==
    /\ \E i \in CallsOf("generation") : ~outbound[i].ok
    /\ last.status = 500
    /\ Len(story_messages) > 0
    /\ story_world_rules # None
    /\ story_summary # None

\* C14: when the summarization call fails on a trigger turn, the request
\* answers with a failure and nothing of the request is persisted.
C14_FailedSummarySurfaced ==
    [][(\E i \in 1..Len(outbound') :
            outbound'[i].service = "summarization" /\ ~outbound'[i].ok) =>
          /\ last'.status # 200
          /\ UNCHANGED <<story_messages, story_hints, story_change_requests,
                         story_world_rules, story_summary>>]_vars

\* C15: every request, whether it succeeds or fails, makes at most one
\* generation call and at most one summarization call; no call is repeated.
C15_AtMostOneCallOfEachKind ==
    /\ Cardinality(CallsOf("generation")) <= 1
    /\ Cardinality(CallsOf("summarization")) <= 1
    /\ Cardinality(CallsOf("hint")) <= 1
    /\ last.op \in {"generate", "continue", "refine"} =>
          Len(outbound) <= 3

\* a turn that made its generation call and its summarization call
C15_Witness ==
    /\ last.op \in {"generate", "continue"}
    /\ Cardinality(CallsOf("generation")) = 1
    /\ Cardinality(CallsOf("summarization")) = 1

\* the positions of s where a whitespace-delimited token starts
TokenStarts(s) ==
    {i \in 1..Len(s) : ~IsBlank(s[i]) /\ (i = 1 \/ IsBlank(s[i - 1]))}

\* the position where the token that starts at i ends
TokenEnd(s, i) ==
    CHOOSE e \in i..Len(s) :
        /\ \A x \in i..e : ~IsBlank(s[x])
        /\ e = Len(s) \/ IsBlank(s[e + 1])

\* the whitespace-delimited tokens of s, in order
TokensOf(s) ==
    [j \in 1..Cardinality(TokenStarts(s)) |->
        LET i == CHOOSE x \in TokenStarts(s) :
                     Cardinality({y \in TokenStarts(s) : y < x}) = j - 1
        IN  SubSeq(s, i, TokenEnd(s, i))]

\* C16: extract_short_hint returns one line of at most 10 whitespace-delimited
\* tokens: the first 10 tokens of the producer's answer when it answers, the
\* empty hint when the producer fails.
C16_HintIsFirstTenTokens ==
    result # NoResult =>
        LET produced == TokensOf(content)
            k == IF Len(produced) < 10 THEN Len(produced) ELSE 10
        IN  /\ ~result.answered => result.hint = <<>>
            /\ result.answered =>
                  /\ TokensOf(result.hint) = SubSeq(produced, 1, k)
                  /\ Len(TokensOf(result.hint)) <= 10
                  /\ \A i \in 1..Len(result.hint) : result.hint[i] # "\n"
                  /\ Len(result.hint) =
                        Cardinality({i \in 1..Len(result.hint) :
                                        ~IsBlank(result.hint[i])}) + IF k = 0 THEN 0 ELSE k - 1

\* the producer answered with more than ten tokens
C16_Witness ==
    /\ result # NoResult
    /\ result.answered
    /\ Len(TokensOf(content)) > 10
    /\ Len(TokensOf(result.hint)) = 10

\* the producer failed after it had produced text
C16_WitnessFailed ==
    /\ result # NoResult
    /\ ~result.answered
    /\ content # <<>>
    /\ result.hint = <<>>

\* the hint history the last request read: the non-empty hints of the story's
\* messages, for a refine those of the messages before its target
RequestHints ==
    LET seen == IF last.op = "refine"
                THEN SelectSeq(story_messages,
                               LAMBDA m : m.order_index <
                                          story_messages[last.target].order_index)
                ELSE story_messages
        carried == SelectSeq(seen, LAMBDA m : m.hint_context # <<>>)
    IN  [i \in 1..Len(carried) |-> carried[i].hint_context]

\* the text holds the word
HasWord(text, w) ==
    \E i \in 0..(Len(text) - Len(w)) : SubSeq(text, i + 1, i + Len(w)) = w

\* the hint's lowercase text holds a lowercase token of the summary that is
\* longer than 4
Matches(hint, summary) ==
    LET tokens == TokensOf(str_lower(summary))
    IN  \E j \in 1..Len(tokens) :
            Len(tokens[j]) > 4 /\ HasWord(str_lower(hint), tokens[j])

\* the first ten elements of a list
FirstTen(list) == SubSeq(list, 1, IF Len(list) < 10 THEN Len(list) ELSE 10)

ServedAlone(story, p) ==
    LET msgs == create_message(story.messages, PROMPT, <<p>>, <<p>>, 100)
    IN  [world_rules |-> merged_rules(story.world_rules, p),
         summary |-> IF summary_due(msgs)
                     THEN summarized_text(story.summary, Len(msgs))
                     ELSE story.summary,
         messages |-> msgs]

\* both requests have answered
BothDone == inflight # NoInflight /\ \A p \in InflightIds : inflight.at[p] = "done"

\* C20: two requests served at the same time on one story leave its World Rule
\* Set and its Summary as serving them one after the other, in one of the two
\* orders, leaves them.
C20_ConcurrentRequestsSerializable ==
    BothDone =>
        \E first \in InflightIds, second \in InflightIds :
            /\ first # second
            /\ LET serial == ServedAlone(ServedAlone(inflight.origin, first), second)
               IN  /\ story_world_rules = serial.world_rules
                   /\ story_summary = serial.summary

\* C22: an owner's generate or continue request either succeeds with the whole
\* turn persisted (the message with its score, its hint, the rule update when
\* the delta is non-empty) or fails and leaves the story's persisted state as
\* it was.
C22_OwnerTurnAllOrNothing ==
    [][(last'.op \in {"generate", "continue"} /\ last'.access = "owner") =>
          \/ /\ last'.status = 200
             /\ Len(story_messages') = Len(story_messages) + 1
             /\ story_messages'[Len(story_messages')].stability_score \in 0..100
             /\ last'.delta # None => story_world_rules' = last'.delta
             /\ story_messages'[Len(story_messages')].hint_context # None =>
                   /\ Len(story_hints') = Len(story_hints) + 1
                   /\ story_hints'[Len(story_hints')].hint_text =
                         story_messages'[Len(story_messages')].hint_context
          \/ /\ last'.status # 200
             /\ UNCHANGED <<story_messages, story_world_rules, story_summary,
                            story_hints>>]_vars

\* the message whose score the last request had to pass on: the last of the
\* log, for a refine the one before its target; 0 when there is none
ScoredBefore == IF last.op = "refine" THEN last.target - 1 ELSE Len(story_messages)

\* C23: the previous NSI a generation call embeds is the stability score of the
\* story's last message (for a refine, of the message before the refined one),
\* or 100 when there is no such message or it has no score; the stabilization
\* clause applies to the call exactly when that value is below 80.
C23_PreviousNsiIsLastScore ==
    call # NoCall =>
        LET expected == IF ScoredBefore > 0
                           /\ story_messages[ScoredBefore].stability_score # NoScore
                        THEN story_messages[ScoredBefore].stability_score
                        ELSE 100
        IN  /\ call.previous_nsi = expected
            /\ sent[1].kind = "policy"
            /\ sent[1].body.previous_nsi = expected
            /\ adaptive_stabilization(sent[1].body.previous_nsi) <=> expected < 80
            /\ expected = 80 => ~adaptive_stabilization(sent[1].body.previous_nsi)

\* a continue after a message scored 75, on a story whose first message scored
\* 100: the clause applies
C23_Witness ==
    /\ last.op = "continue"
    /\ Len(story_messages) = 2
    /\ story_messages[1].stability_score = 100
    /\ story_messages[2].stability_score = 75
    /\ sent[1].body.previous_nsi = 75
    /\ adaptive_stabilization(sent[1].body.previous_nsi)

\* a refine of the third message when the second scored 80 and the third 0:
\* the clause does not apply
C23_WitnessRefine ==
    /\ last.op = "refine"
    /\ last.target = 3
    /\ story_messages[2].stability_score = 80
    /\ story_messages[3].stability_score = 0
    /\ sent[1].body.previous_nsi = 80
    /\ ~adaptive_stabilization(sent[1].body.previous_nsi)

\* C24: a successful owner refine of message m replaces m's response by the
\* refined text and m's hint by the hint extracted from it, and changes
\* nothing else: not another message, not m's prompt, order or score, not the
\* World Rule Set, not the Summary; and it asks for no summary.
C24_RefineChangesOnlyItsMessage ==
    [][(last'.op = "refine" /\ last'.access = "owner" /\ last'.status = 200) =>
          /\ \E g \in Generations :
                story_messages' =
                    [story_messages EXCEPT
                        ![last'.target] =
                            [@ EXCEPT !.ai_response = g.ai_response,
                                      !.hint_context = g.new_hint]]
          /\ UNCHANGED <<story_world_rules, story_summary>>
          /\ \A i \in 1..Len(outbound') : outbound'[i].service # "summarization"
      ]_vars

\* the calls the request of this step made to a service
CallsMade(service) ==
    Cardinality({i \in 1..Len(outbound') : outbound'[i].service = service})

\* C25: an owner's generate or continue turn whose hint extraction gave the
\* empty hint is saved with its message and its score, creates no hint record
\* and makes one generation and one extraction call; and no generation call is
\* ever given an empty hint.
C25_EmptyHintIsNoHint ==
    /\ [](call # NoCall =>
             /\ \A i \in 1..Len(call.retrieved_hints) : call.retrieved_hints[i] # <<>>
             /\ \A j \in 1..Len(sent) :
                   sent[j].kind = "notes" =>
                       \A i \in 1..Len(sent[j].body) : sent[j].body[i] # <<>>)
    /\ [][(/\ last'.op \in {"generate", "continue"}
           /\ last'.access = "owner"
           /\ last'.status = 200
           /\ story_messages'[Len(story_messages')].hint_context = <<>>) =>
              /\ Len(story_messages') = Len(story_messages) + 1
              /\ story_messages'[Len(story_messages')].stability_score \in 0..100
              /\ story_hints' = story_hints
              /\ CallsMade("generation") = 1
              /\ CallsMade("hint") = 1]_vars

\* the context of a continue on a story whose last turn was saved with the
\* empty hint: the hints of the messages before it are supplied
C25_Witness ==
    /\ last.op = "continue"
    /\ call # NoCall
    /\ Len(story_messages) = 3
    /\ story_messages[3].hint_context = <<>>
    /\ story_messages[3].stability_score \in 0..100
    /\ Len(story_hints) = 2
    /\ Len(call.retrieved_hints) = 2

\* C27: the order_index values of a story's n messages are 0..n-1 in
\* insertion order, hence pairwise distinct, also after requests served at the
\* same time.
C27_OrderIndexIsPosition ==
    \A i \in 1..Len(story_messages) : story_messages[i].order_index = i - 1

----------------------------------------------------------------------------
(* Sharing: two users, two stories, and the table story_access.  Each user  *)
(* owns one story and may ask for access to the other.  The rows of the     *)
(* table stay at the position of their id; a deleted row leaves None there. *)

Users == {"u1", "u2"}

Stories == {"A", "B"}

\* Story.user_id of each story
owner_of(story_id) == IF story_id = "A" THEN "u1" ELSE "u2"

RequestedAccess == {"view", "collaborate"}

\* AccessRequestUpdate.status and ChangeRequestUpdate.status
Decisions == {"approved", "rejected"}

MaxAccessRows == 3

\* .filter(StoryAccess.story_id == story_id, StoryAccess.user_id == user_id).first():
\* the id of the row, or 0
access_row(table, story_id, user_id) ==
    LET hits == {i \in 1..Len(table) :
                    /\ table[i] # None
                    /\ table[i].story_id = story_id
                    /\ table[i].user_id = user_id}
    IN  IF hits = {} THEN 0 ELSE CHOOSE i \in hits : \A j \in hits : i <= j

\* check_user_access returning None
NoAccess == "none"

check_user_access(table, story_id, user_id) ==
    IF owner_of(story_id) = user_id
    THEN "owner"
    ELSE LET i == access_row(table, story_id, user_id)
         IN  IF i = 0 THEN NoAccess
             ELSE IF table[i].status = "approved" THEN table[i].access_type
             ELSE IF table[i].status = "pending" THEN "pending"
             ELSE NoAccess

create_access_request(table, story_id, user_id, access_type) ==
    LET i == access_row(table, story_id, user_id)
    IN  IF i # 0
        THEN IF table[i].status # "approved"
             THEN [table EXCEPT ![i].access_type = access_type,
                                ![i].status = "pending"]
             ELSE table
        ELSE Append(table, [story_id |-> story_id, user_id |-> user_id,
                            access_type |-> access_type, status |-> "pending"])

\* what the sharing routes leave alone
accessFrame ==
    <<story_messages, story_world_rules, story_summary, story_hints,
      story_change_requests, outbound, inflight, parseVars, nsiVars, callVars>>

ServedTo(op, user, story_id, status, request_id) ==
    [op |-> op, user |-> user, story |-> story_id, status |-> status,
     request |-> request_id]

\* POST /stories/hash/{hash_id}/request_access
request_access(user, story_id, access_type) ==
    /\ \/ access_row(story_access, story_id, user) # 0
       \/ Len(story_access) < MaxAccessRows
    /\ IF owner_of(story_id) = user
       THEN /\ last' = ServedTo("request_access", user, story_id, 400, 0)
            /\ story_access' = story_access
       ELSE /\ story_access' =
                  create_access_request(story_access, story_id, user, access_type)
            /\ last' = ServedTo("request_access", user, story_id, 200,
                              access_row(story_access', story_id, user))
    /\ UNCHANGED accessFrame

\* PUT /stories/hash/{hash_id}/access_requests/{request_id}: the story of the
\* address decides who may call, the request id alone decides which row
update_access_request(user, story_id, request_id, status) ==
    /\ IF owner_of(story_id) # user
       THEN /\ last' = ServedTo("update_access_request", user, story_id, 403, request_id)
            /\ story_access' = story_access
       ELSE IF request_id \in 1..Len(story_access) /\ story_access[request_id] # None
       THEN /\ story_access' = [story_access EXCEPT ![request_id].status = status]
            /\ last' = ServedTo("update_access_request", user, story_id, 200, request_id)
       ELSE /\ last' = ServedTo("update_access_request", user, story_id, 404, request_id)
            /\ story_access' = story_access
    /\ UNCHANGED accessFrame

\* DELETE /stories/hash/{hash_id}/access/{user_id}
remove_access(user, story_id, user_id) ==
    LET i == access_row(story_access, story_id, user_id)
    IN  /\ IF owner_of(story_id) # user /\ user_id # user
           THEN /\ last' = ServedTo("remove_access", user, story_id, 403, 0)
                /\ story_access' = story_access
           ELSE IF i # 0
           THEN /\ story_access' = [story_access EXCEPT ![i] = None]
                /\ last' = ServedTo("remove_access", user, story_id, 200, i)
           ELSE /\ last' = ServedTo("remove_access", user, story_id, 404, 0)
                /\ story_access' = story_access
        /\ UNCHANGED accessFrame

ReadRoutes == {"get_story", "get_messages"}

\* GET /stories/{story_id} and GET /stories/{story_id}/messages
read_story(route, user, story_id) ==
    /\ last' = ServedTo(route, user, story_id,
                      IF check_user_access(story_access, story_id, user) = NoAccess
                      THEN 403 ELSE 200, 0)
    /\ story_access' = story_access
    /\ UNCHANGED accessFrame

InitAccess == ParseIdle /\ NsiIdle /\ CallIdle /\ StoryIdle

NextAccess ==
    \E user \in Users, story_id \in Stories :
        \/ \E access_type \in RequestedAccess : request_access(user, story_id, access_type)
        \/ \E request_id \in 1..MaxAccessRows, status \in Decisions :
              update_access_request(user, story_id, request_id, status)
        \/ \E user_id \in Users : remove_access(user, story_id, user_id)
        \/ \E route \in ReadRoutes : read_story(route, user, story_id)

SpecAccess == InitAccess /\ [][NextAccess]_vars

\* C28: a read of a story's metadata or messages is served only to the
\* story's owner or to a user holding an access record of that story whose
\* status is approved; pending, rejected and absent requesters are denied.
C28_ReadNeedsOwnerOrApproved ==
    (last # NoRequest /\ last.op \in ReadRoutes /\ last.status = 200) =>
        \/ owner_of(last.story) = last.user
        \/ LET i == access_row(story_access, last.story, last.user)
           IN  i # 0 /\ story_access[i].status = "approved"

\* the part of C28 the routes do keep: a rejected or absent requester is denied
C28_RejectedAndAbsentDenied ==
    (last # NoRequest /\ last.op \in ReadRoutes /\ last.status = 200) =>
        \/ owner_of(last.story) = last.user
        \/ LET i == access_row(story_access, last.story, last.user)
           IN  i # 0 /\ story_access[i].status \in {"approved", "pending"}

----------------------------------------------------------------------------
(* Proposals applied once *)

\* the messages an approval created: create_message is called without a
\* stability score there and nowhere else
FromProposals(msgs) ==
    {i \in 1..Len(msgs) : msgs[i].stability_score = NoScore}

NewMessageProposals(crs) ==
    {r \in 1..Len(crs) : crs[r].change_type = "new_message"}

\* C30: each change request is applied at most once: the messages created
\* from new_message proposals never outnumber those proposals, whatever
\* approvals and rejections were made.
C30_ProposalAppliedAtMostOnce ==
    Cardinality(FromProposals(story_messages))
        <= Cardinality(NewMessageProposals(story_change_requests))

----------------------------------------------------------------------------
(* Two stories side by side.  The tables hold the rows of both stories,     *)
(* each row with its story_id and at the position of its id; world_rules    *)
(* and summary are a column per story.  Story A has been written for four   *)
(* turns and story B for one; u2 collaborates on A.  The database answers.  *)

in_story(row, story_id) == row @@ [story_id |-> story_id]

\* .filter(StoryMessage.story_id == story_id).order_by(StoryMessage.order_index)
messages_of(msgs, story_id) == SelectSeq(msgs, LAMBDA m : m.story_id = story_id)

\* .filter(StoryHint.story_id == story_id)
hints_of(hs, story_id) == SelectSeq(hs, LAMBDA h : h.story_id = story_id)

\* crud.create_message on the shared table
create_message_of(msgs, story_id, user_prompt, ai_response, hint_context, stability_score) ==
    LET own == messages_of(msgs, story_id)
        saved == create_message(own, user_prompt, ai_response, hint_context,
                                stability_score)
    IN  Append(msgs, in_story(saved[Len(saved)], story_id))

\* crud.create_hint on the shared table
create_hint_of(hs, story_id, hint_text, message_id) ==
    Append(hs, in_story(create_hint(<<>>, hint_text, message_id)[1], story_id))

\* crud.create_change_request on the shared table
create_change_request_of(crs, story_id, user_id, change_type, new_content, target) ==
    Append(crs, in_story(create_change_request(<<>>, change_type, new_content,
                                               target)[1], story_id)
                   @@ [user_id |-> user_id])

MaxProposals == 1

MaxSharedMessages == 6

\* the message ids requests name: the last message of A and the message of B
MessageIds == {SUMMARY_EVERY - 1, SUMMARY_EVERY}

\* the generation answers the shared stories get: prose alone with no hint,
\* and prose with a rule and a hint
SharedGenerations ==
    {generation(<<"a">>, None),
     generation(<<"a", WO, UR, COLON, "r1", WC>>, <<"h">>)}

sharedFrame == <<outbound, inflight, story_access, parseVars, nsiVars, callVars>>

\* everything persisted for one story
persisted(msgs, hs, rules, summary, story_id) ==
    <<messages_of(msgs, story_id), hints_of(hs, story_id), rules[story_id],
      summary[story_id]>>

\* a request that ends before it writes: 403, 404 or 500 of the generation
Unserved(op, user, story_id, status) ==
    /\ last' = ServedTo(op, user, story_id, status, 0)
    /\ UNCHANGED <<story_messages, story_world_rules, story_summary, story_hints,
                   story_change_requests>>

\* the collaborator branch of a route: crud.create_change_request
Proposed(op, user, story_id, change_type, new_content, target) ==
    /\ Len(story_change_requests) < MaxProposals
    /\ story_change_requests' =
          create_change_request_of(story_change_requests, story_id, user,
                                   change_type, new_content, target)
    /\ last' = ServedTo(op, user, story_id, 200, Len(story_change_requests'))
    /\ UNCHANGED <<story_messages, story_world_rules, story_summary, story_hints>>

\* POST /generate and POST /continue on story_id
shared_turn(op, user, story_id) ==
    LET access == check_user_access(story_access, story_id, user)
    IN  IF access \notin {"owner", "collaborate"}
        THEN Unserved(op, user, story_id, 403)
        ELSE \/ Unserved(op, user, story_id, 500)
             \/ \E g \in SharedGenerations :
                   IF access = "collaborate"
                   THEN Proposed(op, user, story_id, "new_message",
                                 proposal(PROMPT, g.ai_response, g.new_hint), 0)
                   ELSE LET saved == create_message_of(
                                        story_messages, story_id, PROMPT,
                                        g.ai_response, g.new_hint,
                                        compute_nsi(g.violations))
                        IN  /\ Len(story_messages) < MaxSharedMessages
                            /\ story_world_rules' =
                                  [story_world_rules EXCEPT ![story_id] =
                                      persist_world_rules(@, g.updated_rules)]
                            /\ story_messages' = saved
                            /\ story_hints' =
                                  IF g.new_hint # None
                                  THEN create_hint_of(story_hints, story_id,
                                                      g.new_hint, Len(saved))
                                  ELSE story_hints
                            /\ \E summarized \in
                                     SummaryOutcomes(messages_of(saved, story_id)) :
                                  story_summary' =
                                     [story_summary EXCEPT ![story_id] =
                                         trigger_periodic_summary(
                                             messages_of(saved, story_id), @,
                                             summarized)]
                            /\ last' = ServedTo(op, user, story_id, 200, 0)
                            /\ UNCHANGED story_change_requests

\* POST /refine and PUT /messages/{message_id}: the story is the message's
shared_rewrite(op, user, message_id) ==
    LET story_id == story_messages[message_id].story_id
        access == check_user_access(story_access, story_id, user)
    IN  IF access \notin {"owner", "collaborate"}
        THEN Unserved(op, user, story_id, 403)
        ELSE \E g \in IF op = "refine" THEN SharedGenerations
                      ELSE {generation(EDITED, story_messages[message_id].hint_context)} :
                IF access = "collaborate"
                THEN Proposed(op, user, story_id, op,
                              proposal(None, g.ai_response, None), message_id)
                ELSE /\ story_messages' =
                           update_message(story_messages, message_id,
                                          g.ai_response, g.new_hint)
                     /\ last' = ServedTo(op, user, story_id, 200, 0)
                     /\ UNCHANGED <<story_world_rules, story_summary, story_hints,
                                    story_change_requests>>

\* POST /stories/hash/{hash_id}/propose_change: an edit of message target
propose_change(user, story_id, target) ==
    IF /\ check_user_access(story_access, story_id, user) # "collaborate"
       /\ owner_of(story_id) # user
    THEN Unserved("propose_change", user, story_id, 403)
    ELSE Proposed("propose_change", user, story_id, "edit",
                  proposal(None, EDITED, None), target)

\* PUT /stories/hash/{hash_id}/change_requests/{request_id}: the story of the
\* address decides who may call and where a new message goes; the request id
\* alone decides which request, and its target which message is rewritten
shared_review(user, story_id, request_id, status) ==
    IF owner_of(story_id) # user
    THEN Unserved("review", user, story_id, 403)
    ELSE IF request_id \notin 1..Len(story_change_requests)
    THEN Unserved("review", user, story_id, 404)
    ELSE LET updated_request ==
                 [story_change_requests[request_id] EXCEPT !.status = status]
             new_content == updated_request.new_content
             saved == create_message_of(story_messages, story_id,
                                        new_content.user_prompt,
                                        new_content.ai_response,
                                        new_content.hint_context, NoScore)
         IN  /\ story_change_requests' =
                   [story_change_requests EXCEPT ![request_id] = updated_request]
             /\ IF status # "approved"
                THEN UNCHANGED <<story_messages, story_summary>>
                ELSE IF updated_request.change_type = "new_message"
                THEN /\ Len(story_messages) < MaxSharedMessages
                     /\ story_messages' = saved
                     /\ \E summarized \in
                              SummaryOutcomes(messages_of(saved, story_id)) :
                           story_summary' =
                              [story_summary EXCEPT ![story_id] =
                                  trigger_periodic_summary(
                                      messages_of(saved, story_id), @, summarized)]
                ELSE /\ story_messages' =
                           IF updated_request.target_message_id
                                  \in 1..Len(story_messages)
                           THEN update_message(story_messages,
                                               updated_request.target_message_id,
                                               new_content.ai_response, None)
                           ELSE story_messages
                     /\ UNCHANGED story_summary
             /\ last' = ServedTo("review", user, story_id, 200, request_id)
             /\ UNCHANGED <<story_world_rules, story_hints>>

InitShared ==
    /\ ParseIdle /\ NsiIdle /\ CallIdle
    /\ story_messages =
          [i \in 1..(SUMMARY_EVERY - 1) |->
              in_story(persisted_log(SUMMARY_EVERY - 1)[i], "A")]
          \o <<in_story(persisted_log(1)[1], "B")>>
    /\ story_hints =
          [i \in 1..(SUMMARY_EVERY - 1) |->
              in_story(persisted_hints(SUMMARY_EVERY - 1)[i], "A")]
          \o <<in_story([hint_text |-> <<"h">> \o tag(1),
                         message_index |-> SUMMARY_EVERY], "B")>>
    /\ story_world_rules = [s \in Stories |-> None]
    /\ story_summary = [s \in Stories |-> None]
    /\ story_change_requests = <<>>
    /\ story_access =
          <<[story_id |-> "A", user_id |-> "u2", access_type |-> "collaborate",
             status |-> "approved"]>>
    /\ last = NoRequest
    /\ outbound = <<>>
    /\ inflight = NoInflight

NextShared ==
    \E user \in Users :
        \/ \E op \in {"generate", "continue"}, story_id \in Stories :
              shared_turn(op, user, story_id) /\ UNCHANGED sharedFrame
        \/ \E op \in {"refine", "edit"}, message_id \in MessageIds :
              shared_rewrite(op, user, message_id) /\ UNCHANGED sharedFrame
        \/ \E story_id \in Stories, target \in MessageIds :
              propose_change(user, story_id, target) /\ UNCHANGED sharedFrame
        \/ \E story_id \in Stories, request_id \in 1..MaxProposals,
              status \in Decisions :
              shared_review(user, story_id, request_id, status)
              /\ UNCHANGED sharedFrame

SpecShared == InitShared /\ [][NextShared]_vars

----------------------------------------------------------------------------
(* What sharing promises *)

\* story s holds after the step what it held before it
Untouched(s) ==
    persisted(story_messages', story_hints', story_world_rules', story_summary', s)
        = persisted(story_messages, story_hints, story_world_rules, story_summary, s)

\* C21: an operation invoked on one story (generate, continue, refine, edit,
\* the summarization trigger, a proposal, an approval) leaves the Summary,
\* the World Rule Set, the messages with their stability scores and the hints
\* of every other story unchanged.
C21_OtherStoriesUnchanged ==
    [][\A s \in Stories : s # last'.story => Untouched(s)]_vars

\* a collaborator's generate, continue, refine or edit writes nothing of the
\* story and, when served, adds one pending change request of that story
CollaboratorOnlyProposes ==
    (/\ last'.op \in {"generate", "continue", "refine", "edit"}
     /\ check_user_access(story_access, last'.story, last'.user) = "collaborate") =>
        /\ Untouched(last'.story)
        /\ last'.status = 200 =>
              /\ Len(story_change_requests') = Len(story_change_requests) + 1
              /\ story_change_requests'[Len(story_change_requests')].status = "pending"
              /\ story_change_requests'[Len(story_change_requests')].story_id
                    = last'.story
              /\ story_change_requests'[Len(story_change_requests')].user_id
                    = last'.user

\* C26: a generate, continue, refine or edit request of a collaborator never
\* creates or modifies a message, score, hint or the World Rule Set of the
\* story, it only records a pending change request; what the story holds
\* changes only in a request of the story's owner, who approves the proposal.
C26_CollaboratorNeedsOwnerApproval ==
    [][/\ CollaboratorOnlyProposes
       /\ \A s \in Stories : ~Untouched(s) => last'.user = owner_of(s)]_vars

\* the first half of C26 alone
C26_CollaboratorWritesNothing == [][CollaboratorOnlyProposes]_vars

\* C29: a change request is approved or rejected only by the owner of the
\* story it belongs to, and an approval creates or modifies messages of that
\* story only: through the approval endpoint of a story they own no user
\* changes a request or a message of another story.
C29_OnlyOwnStoryRequests ==
    [][last'.op = "review" =>
          /\ \A r \in 1..Len(story_change_requests) :
                story_change_requests'[r] # story_change_requests[r] =>
                    /\ story_change_requests[r].story_id = last'.story
                    /\ owner_of(story_change_requests[r].story_id) = last'.user
          /\ \A s \in Stories :
                messages_of(story_messages', s) # messages_of(story_messages, s) =>
                    /\ s = last'.story
                    /\ owner_of(s) = last'.user
                    /\ story_change_requests[last'.request].story_id = s]_vars

\* the same for access requests: a row of story_access changes its status
\* only in a request of the owner of the row's story
AccessDecidedByOwner ==
    [][last'.op = "update_access_request" =>
          \A i \in 1..Len(story_access) :
              (story_access[i] # None /\ story_access'[i] # story_access[i]) =>
                  owner_of(story_access[i].story_id) = last'.user]_vars

====
